---- MODULE Spec2Model ----
(***************************************************************************)
(* Model of the surgemq persistence providers (boltdb and mem) and of the  *)
(* PUBREL / SUBACK / UNSUBACK message codecs.                              *)
(*                                                                         *)
(*   Spec       the persistence API, one call per step (bolt transactions  *)
(*              are serialised, so a call is atomic when calls do not      *)
(*              overlap)                                                   *)
(*   SpecTx     the boltdb provider with calls running on several          *)
(*              goroutines, one statement per step                         *)
(*   SpecCodec  the message codecs, applied to bounded inputs              *)
(***************************************************************************)
EXTENDS Integers, Sequences, FiniteSets, TLC

VARIABLES
    db,       \* content of the bolt database file (buckets of buckets)
    done,     \* boltdb dbStatus.done is closed
    dbh,      \* boltdb dbStatus.db: "open", "closed" (after Close) or "nil"
    wgTx,     \* boltdb impl.wgTx counter
    lock,     \* boltdb impl.lock: "free" or the goroutine holding it
    memDone,  \* mem dbStatus.done is closed
    handles,  \* ids of the session handles handed out so far
    hist,     \* history: per session and direction, the messages stored since the last delete;
              \* the ids sessions.New returned a session for and no Delete removed since
    last,     \* the call that returned last, with its arguments and results
    nops,     \* number of state-changing calls made so far
    pc,       \* SpecTx: position of every goroutine inside its call
    txk,      \* SpecTx: what the call of a goroutine runs: "View", "Update" or "None"
    ret,      \* SpecTx: what the call of a goroutine returned
    closes,   \* SpecTx: number of times bolt.DB.Close ran
    codec     \* SpecCodec: the codec call applied last, with input and result

vars == <<db, done, dbh, wgTx, lock, memDone, handles, hist, last, nops,
          pc, txk, ret, closes, codec>>

storeVars == <<db, done, dbh, memDone, handles, hist, last, nops>>
txVars == <<pc, txk, ret, closes, wgTx, lock>>

----------------------------------------------------------------------------
(* Bounds of the model *)

\* number of updating persistence calls (those that run db.Update or shut the
\* provider down) in one run; the calls that only read are not counted
MaxOps == 3
\* longest byte buffer handed to a decoder
MaxSrcLen == 5
\* longest destination buffer handed to an encoder
MaxDstLen == 6
\* largest number of return codes of a SUBACK that is encoded
MaxCodes == 2

----------------------------------------------------------------------------
(* Error values *)

Nil == "nil"
ErrNotOpen == "ErrNotOpen"
ErrNotFound == "ErrNotFound"
ErrAlreadyExists == "ErrAlreadyExists"
\* errors of the bolt package
BoltErrBucketExists == "bolt.ErrBucketExists"
BoltErrBucketNotFound == "bolt.ErrBucketNotFound"
BoltErrBucketNameRequired == "bolt.ErrBucketNameRequired"
\* a nil-pointer dereference or an index out of range
Panic == "panic"

SharedErrors == {ErrNotOpen, ErrNotFound, ErrAlreadyExists}

----------------------------------------------------------------------------
(* Message values handed to the persistence layer *)

PUBLISH == 3
PUBREL == 6
SUBSCRIBE == 8
SUBACK == 9
UNSUBSCRIBE == 10
UNSUBACK == 11
CONNACK == 2
PINGREQ == 12

PublishMsg(id, qos, topic, payload) ==
    [type |-> PUBLISH, id |-> id, qos |-> qos, topic |-> topic, payload |-> payload]
PubRelMsg(id) ==
    [type |-> PUBREL, id |-> id, qos |-> 0, topic |-> "", payload |-> <<>>]

\* message.Type.NewMessage: a fresh message of the given type
NewMessage(t) ==
    [type |-> t, id |-> 0, qos |-> 0, topic |-> "", payload |-> <<>>]

P0 == PublishMsg(0, 0, "a/b", <<>>)
P1 == PublishMsg(258, 1, "c", <<9>>)
R7 == PubRelMsg(7)
Msgs == {P0, P1, R7}

Ids == {"", "s1", "s2"}
Dirs == {"in", "out"}

RECURSIVE SeqsUpTo(_, _)
SeqsUpTo(S, n) ==
    IF n = 0 THEN {<<>>}
    ELSE LET shorter == SeqsUpTo(S, n - 1)
         IN shorter \cup {Append(s, x) : s \in {t \in shorter : Len(t) = n - 1}, x \in S}

\* the message lists handed to Store
MsgLists == {<<>>, <<P0>>, <<R7>>, <<P1, R7>>}

\* message.TopicsQoS values handed to Add: maps from topic to QoS
SubMaps == {<<>>, ("t1" :> 0), ("t1" :> 1), ("t1" :> 1) @@ ("t2" :> 0)}

----------------------------------------------------------------------------
(* Byte helpers *)

RECURSIVE itob(_, _)
\* big-endian representation of v on n bytes
itob(v, n) == IF n = 0 THEN <<>> ELSE Append(itob(v \div 256, n - 1), v % 256)

itob64(v) == itob(v, 8)
itob16(v) == itob(v % 65536, 2)

\* binary.BigEndian.Uint16
Uint16(b) == b[1] * 256 + b[2]

\* bytes.Compare(a, b) < 0, the order of the keys of a bolt bucket
BytesLess(a, b) ==
    \/ \E i \in 1..Len(a) :
          /\ i <= Len(b)
          /\ a[i] < b[i]
          /\ \A j \in 1..(i - 1) : a[j] = b[j]
    \/ /\ Len(a) < Len(b)
       /\ \A j \in 1..Len(a) : a[j] = b[j]

RECURSIVE SortKeys(_)
\* the keys of a bucket in cursor order (First, Next, ...)
SortKeys(S) ==
    IF S = {} THEN <<>>
    ELSE LET first == CHOOSE k \in S : \A o \in S \ {k} : BytesLess(k, o)
         IN <<first>> \o SortKeys(S \ {first})

----------------------------------------------------------------------------
(* bolt buckets.  An optional bucket is a sequence of length 0 (no such    *)
(* bucket) or 1.  A sequence-keyed bucket holds its sequence counter and   *)
(* one nested bucket per 8-byte key.                                       *)

None == <<>>
Some(b) == <<b>>
IsNone(o) == Len(o) = 0
Val(o) == o[1]

EmptyFn == <<>>
EmptySeqBucket == [seq |-> 0, recs |-> EmptyFn]
EmptySession == [subscriptions |-> None, messages |-> None]
EmptyDB == [retained |-> None, sessions |-> None]

\* Bucket.CreateBucket: the error for the key it is given
CreateBucketErr(exists, emptyName) ==
    IF emptyName THEN BoltErrBucketNameRequired
    ELSE IF exists THEN BoltErrBucketExists
    ELSE Nil

\* Bucket.DeleteBucket: the error for the key it is given
DeleteBucketErr(exists) == IF exists THEN Nil ELSE BoltErrBucketNotFound

\* db.Update: the changes of a function that returns an error are rolled back
Update(d, tx) == IF tx.err = Nil THEN tx ELSE [tx EXCEPT !.db = d]

HasSessions(d) == ~IsNone(d.sessions)
SessionIds(d) == IF HasSessions(d) THEN DOMAIN Val(d.sessions) ELSE {}
HasSession(d, id) == id \in SessionIds(d)
Session(d, id) == Val(d.sessions)[id]

SetSession(d, id, s) ==
    [d EXCEPT !.sessions = Some((id :> s) @@ Val(d.sessions))]

----------------------------------------------------------------------------
(* putMsg / getMsgs: one stored message is a bucket of named fields *)

\* the field names of a stored message in the key order of bolt (ForEach)
FieldOrder == <<"id", "payload", "qos", "topic", "type">>

putMsg(msg) ==
    LET b1 == ("type" :> <<msg.type>>)
        b2 == IF msg.id # 0 THEN ("id" :> itob16(msg.id)) @@ b1 ELSE b1
        b3 == IF msg.type = PUBLISH
              THEN LET q == ("qos" :> <<msg.qos>>) @@ b2
                       t == ("topic" :> msg.topic) @@ q
                   IN IF Len(msg.payload) > 0
                      THEN ("payload" :> msg.payload) @@ t
                      ELSE t
              ELSE b2
    IN b3

\* the switch inside packBuk.ForEach of getMsgs: only a PUBLISH takes fields
getMsgField(m, name, val) ==
    IF m.type = PUBLISH
    THEN CASE name = "id" -> [m EXCEPT !.id = Uint16(val)]
           [] name = "topic" -> [m EXCEPT !.topic = val]
           [] name = "payload" -> [m EXCEPT !.payload = val]
           [] name = "qos" -> [m EXCEPT !.qos = val[1]]
           [] OTHER -> m
    ELSE m

RECURSIVE getMsgFields(_, _, _)
getMsgFields(m, packBuk, i) ==
    IF i > Len(FieldOrder) THEN m
    ELSE LET name == FieldOrder[i]
         IN IF name \in DOMAIN packBuk
            THEN getMsgFields(getMsgField(m, name, packBuk[name]), packBuk, i + 1)
            ELSE getMsgFields(m, packBuk, i + 1)

getMsg(packBuk) == getMsgFields(NewMessage(packBuk["type"][1]), packBuk, 1)

\* getMsgs: the messages of a sequence-keyed bucket in cursor order
getMsgs(b) ==
    LET keys == SortKeys(DOMAIN b.recs)
    IN [i \in 1..Len(keys) |-> getMsg(b.recs[keys[i]])]

RECURSIVE putMsgs(_, _)
\* the loop of messages.Store and retained.Store: NextSequence, CreateBucket, putMsg
putMsgs(b, msgs) ==
    IF Len(msgs) = 0 THEN [b |-> b, err |-> Nil]
    ELSE LET id == b.seq + 1
             key == itob64(id)
             err == CreateBucketErr(key \in DOMAIN b.recs, FALSE)
         IN IF err # Nil
            THEN [b |-> [b EXCEPT !.seq = id], err |-> err]
            ELSE putMsgs([seq |-> id, recs |-> (key :> putMsg(Head(msgs))) @@ b.recs],
                         Tail(msgs))

----------------------------------------------------------------------------
(* The transactions of the boltdb provider, as functions of the database.  *)
(* Each returns the database it leaves and the error of the call.          *)

\* sessions.New
SessionsNewTx(d, id) ==
    LET d1 == IF HasSessions(d) THEN d ELSE [d EXCEPT !.sessions = Some(EmptyFn)]
        err == CreateBucketErr(HasSession(d1, id), id = "")
    IN Update(d, [db |-> IF err = Nil THEN SetSession(d1, id, EmptySession) ELSE d1,
                  err |-> err])

\* sessions.New with the check for bolt.ErrBucketExists left out
SessionsNewErrSwallowed(err) == Nil

\* the translation of the transaction's error at the end of sessions.New
SessionsNewErr(err) == IF err = BoltErrBucketExists THEN ErrAlreadyExists ELSE Nil

SessionsNewHandle(err) == err # BoltErrBucketExists

\* sessions.Get
SessionsGetErr(d, id) == IF HasSession(d, id) THEN Nil ELSE ErrNotFound

\* sessions.GetAll
SessionsGetAllErr(d) == IF HasSessions(d) THEN Nil ELSE ErrNotFound
SessionsGetAllIds(d) == SessionIds(d)

\* sessions.Delete that finds the session but leaves its bucket in place
SessionsDeleteTxKept(d, id) ==
    [db |-> d, err |-> IF HasSession(d, id) THEN Nil ELSE ErrNotFound]

\* sessions.Delete: DeleteBucket removes the session bucket with all it nests
SessionsDeleteTx(d, id) ==
    IF ~HasSessions(d) THEN [db |-> d, err |-> ErrNotFound]
    ELSE LET err == DeleteBucketErr(HasSession(d, id))
             left == [i \in SessionIds(d) \ {id} |-> Session(d, i)]
         IN Update(d, [db |-> IF err = Nil THEN [d EXCEPT !.sessions = Some(left)] ELSE d,
                       err |-> err])

SessionsDeleteErr(err) == IF err # Nil THEN ErrNotFound ELSE Nil

RECURSIVE addSubs(_, _, _)
\* the loop of subscriptions.Add over the topics in the order the map yields them
addSubs(b, subs, order) ==
    IF Len(order) = 0 THEN [b |-> b, err |-> Nil]
    ELSE LET id == b.seq + 1
             key == itob64(id)
             t == Head(order)
             err == CreateBucketErr(key \in DOMAIN b.recs, FALSE)
             pb == ("qos" :> <<subs[t]>>) @@ ("topic" :> t)
         IN IF err # Nil
            THEN [b |-> [b EXCEPT !.seq = id], err |-> err]
            ELSE addSubs([seq |-> id, recs |-> (key :> pb) @@ b.recs], subs, Tail(order))

\* subscriptions.Add that writes the records under every session
SubscriptionsAddTxShared(d, id, subs, order) ==
    IF ~HasSessions(d) THEN [db |-> d, err |-> ErrNotFound]
    ELSE IF ~HasSession(d, id) THEN [db |-> d, err |-> ErrNotFound]
    ELSE LET s == Session(d, id)
             bucket == IF IsNone(s.subscriptions) THEN EmptySeqBucket
                       ELSE Val(s.subscriptions)
             r == addSubs(bucket, subs, order)
             all == [i \in SessionIds(d) |->
                        [Session(d, i) EXCEPT !.subscriptions = Some(r.b)]]
         IN Update(d, [db |-> [d EXCEPT !.sessions = Some(all)], err |-> r.err])

\* subscriptions.Add
SubscriptionsAddTx(d, id, subs, order) ==
    IF ~HasSessions(d) THEN [db |-> d, err |-> ErrNotFound]
    ELSE IF ~HasSession(d, id) THEN [db |-> d, err |-> ErrNotFound]
    ELSE LET s == Session(d, id)
             bucket == IF IsNone(s.subscriptions) THEN EmptySeqBucket
                       ELSE Val(s.subscriptions)
             r == addSubs(bucket, subs, order)
         IN Update(d, [db |-> SetSession(d, id, [s EXCEPT !.subscriptions = Some(r.b)]),
                       err |-> r.err])

\* the body of the cursor loop of subscriptions.Get: topic and qos of one record
subRecord(subBuck) ==
    [t |-> IF "topic" \in DOMAIN subBuck THEN subBuck["topic"] ELSE "",
     q |-> IF "qos" \in DOMAIN subBuck THEN subBuck["qos"][1] ELSE 0]

RECURSIVE scanSubsKeepFirst(_, _, _, _)
\* the cursor loop of subscriptions.Get that keeps the QoS a topic already has
scanSubsKeepFirst(res, b, keys, i) ==
    IF i > Len(keys) THEN res
    ELSE LET r == subRecord(b.recs[keys[i]])
         IN scanSubsKeepFirst(IF r.t \in DOMAIN res THEN res ELSE (r.t :> r.q) @@ res,
                              b, keys, i + 1)

RECURSIVE scanSubs(_, _, _, _)
\* the cursor loop of subscriptions.Get: res[t] = q for every record, in key order
scanSubs(res, b, keys, i) ==
    IF i > Len(keys) THEN res
    ELSE LET r == subRecord(b.recs[keys[i]])
         IN scanSubs((r.t :> r.q) @@ [x \in DOMAIN res \ {r.t} |-> res[x]], b, keys, i + 1)

RECURSIVE forEachSubs(_, _, _, _)
\* bucket.ForEach of subscriptions.Get: one full cursor scan per record
forEachSubs(res, b, keys, n) ==
    IF n = 0 THEN res
    ELSE forEachSubs(scanSubs(res, b, keys, 1), b, keys, n - 1)

\* subscriptions.Get
SubscriptionsGetTx(d, id) ==
    IF ~HasSessions(d) THEN [subs |-> EmptyFn, err |-> ErrNotFound]
    ELSE IF ~HasSession(d, id) THEN [subs |-> EmptyFn, err |-> ErrNotFound]
    ELSE IF IsNone(Session(d, id).subscriptions) THEN [subs |-> EmptyFn, err |-> ErrNotFound]
    ELSE LET b == Val(Session(d, id).subscriptions)
             keys == SortKeys(DOMAIN b.recs)
         IN [subs |-> forEachSubs(EmptyFn, b, keys, Len(keys)), err |-> Nil]

\* subscriptions.Delete
SubscriptionsDeleteTx(d, id) ==
    IF ~HasSessions(d) THEN [db |-> d, err |-> ErrNotFound]
    ELSE IF ~HasSession(d, id) THEN [db |-> d, err |-> ErrNotFound]
    ELSE LET s == Session(d, id)
             err == DeleteBucketErr(~IsNone(s.subscriptions))
         IN Update(d, [db |-> SetSession(d, id, [s EXCEPT !.subscriptions = None]),
                       err |-> err])

\* messages.Store that creates the session bucket when it is missing
MessagesStoreTxRecreates(d, id, dir, msgs) ==
    IF ~HasSessions(d) THEN [db |-> d, err |-> ErrNotFound]
    ELSE LET s == IF HasSession(d, id) THEN Session(d, id) ELSE EmptySession
             bucket == IF IsNone(s.messages) THEN EmptyFn ELSE Val(s.messages)
             dirBuck == IF dir \in DOMAIN bucket THEN bucket[dir] ELSE EmptySeqBucket
             r == putMsgs(dirBuck, msgs)
         IN Update(d, [db |-> SetSession(d, id,
                                 [s EXCEPT !.messages = Some((dir :> r.b) @@ bucket)]),
                       err |-> r.err])

\* messages.Store
MessagesStoreTx(d, id, dir, msgs) ==
    IF ~HasSessions(d) THEN [db |-> d, err |-> ErrNotFound]
    ELSE IF ~HasSession(d, id) THEN [db |-> d, err |-> ErrNotFound]
    ELSE LET s == Session(d, id)
             bucket == IF IsNone(s.messages) THEN EmptyFn ELSE Val(s.messages)
             dirBuck == IF dir \in DOMAIN bucket THEN bucket[dir] ELSE EmptySeqBucket
             r == putMsgs(dirBuck, msgs)
         IN Update(d, [db |-> SetSession(d, id,
                                 [s EXCEPT !.messages = Some((dir :> r.b) @@ bucket)]),
                       err |-> r.err])

\* messages.Load: the directions "in" and "out", errors of getMsgs dropped
MessagesLoadTx(d, id) ==
    IF ~HasSessions(d) THEN [in |-> <<>>, out |-> <<>>, err |-> ErrNotFound]
    ELSE IF ~HasSession(d, id) THEN [in |-> <<>>, out |-> <<>>, err |-> ErrNotFound]
    ELSE IF IsNone(Session(d, id).messages) THEN [in |-> <<>>, out |-> <<>>, err |-> ErrNotFound]
    ELSE LET msgBuck == Val(Session(d, id).messages)
         IN [in |-> IF "in" \in DOMAIN msgBuck THEN getMsgs(msgBuck["in"]) ELSE <<>>,
             out |-> IF "out" \in DOMAIN msgBuck THEN getMsgs(msgBuck["out"]) ELSE <<>>,
             err |-> Nil]

\* messages.Delete
MessagesDeleteTx(d, id) ==
    IF ~HasSessions(d) THEN [db |-> d, err |-> ErrNotFound]
    ELSE IF ~HasSession(d, id) THEN [db |-> d, err |-> ErrNotFound]
    ELSE LET s == Session(d, id)
             err == DeleteBucketErr(~IsNone(s.messages))
         IN Update(d, [db |-> SetSession(d, id, [s EXCEPT !.messages = None]),
                       err |-> err])

\* retained.Load
RetainedLoadTx(d) ==
    IF IsNone(d.retained) THEN [msgs |-> <<>>, err |-> ErrNotFound]
    ELSE [msgs |-> getMsgs(Val(d.retained)), err |-> Nil]

\* retained.Store
RetainedStoreTx(d, msgs) ==
    LET bucket == IF IsNone(d.retained) THEN EmptySeqBucket ELSE Val(d.retained)
        r == putMsgs(bucket, msgs)
    IN Update(d, [db |-> [d EXCEPT !.retained = Some(r.b)], err |-> r.err])

\* retained.Delete
RetainedDeleteTx(d) ==
    LET err == DeleteBucketErr(~IsNone(d.retained))
    IN Update(d, [db |-> [d EXCEPT !.retained = None], err |-> err])

RetainedDeleteErr(err) == IF err = BoltErrBucketNotFound THEN ErrNotFound ELSE err


----------------------------------------------------------------------------
(* The persistence API, one call per step *)

\* a call that goes on without looking at the done channel
IsClosedUnchecked(ch) == FALSE

\* the select on the done channel at the head of every call
IsClosed(ch) == ch

\* what a call returns before it reaches its transaction: ErrNotOpen when the
\* provider is closed; a transaction on a nil or closed *bolt.DB cannot run
EarlyErr ==
    IF IsClosed(done) THEN ErrNotOpen
    ELSE IF dbh # "open" THEN Panic
    ELSE Nil

\* an updating call that reaches its transaction uses one unit of the budget
Budget ==
    /\ EarlyErr = Nil => nops < MaxOps
    /\ nops' = IF EarlyErr = Nil THEN nops + 1 ELSE nops

Call(backend, op, id, err) ==
    [backend |-> backend, op |-> op, id |-> id, dir |-> "", arg |-> <<>>,
     err |-> err, handle |-> FALSE, ids |-> {}, subs |-> EmptyFn,
     in |-> <<>>, out |-> <<>>, msgs |-> <<>>, removed |-> 0]

NoHist == [ses |-> [i \in Ids |-> [d \in Dirs |-> <<>>]], retained |-> <<>>, new |-> {}]

\* number of subscription and message records stored under a session
Stored(d, id) ==
    IF ~HasSession(d, id) THEN 0
    ELSE LET s == Session(d, id)
             msgBuck == IF IsNone(s.messages) THEN EmptyFn ELSE Val(s.messages)
             n(dir) == IF dir \in DOMAIN msgBuck THEN msgBuck[dir].seq ELSE 0
         IN (IF IsNone(s.subscriptions) THEN 0 ELSE Val(s.subscriptions).seq)
            + n("in") + n("out")

\* the orders in which ranging over a Go map can yield its keys
Orders(S) == {o \in SeqsUpTo(S, Cardinality(S)) :
                 Len(o) = Cardinality(S) /\ \A x \in S : \E i \in 1..Len(o) : o[i] = x}

StoreInit ==
    /\ db = EmptyDB
    /\ done = FALSE
    /\ dbh = "open"
    /\ memDone = FALSE
    /\ handles = {}
    /\ hist = NoHist
    /\ last = Call("", "open", "", Nil)
    /\ nops = 0

\* impl.Sessions (boltdb)
Sessions ==
    /\ last' = [Call("boltdb", "Sessions", "", IF IsClosed(done) THEN ErrNotOpen ELSE Nil)
                   EXCEPT !.handle = ~IsClosed(done)]
    /\ UNCHANGED <<db, done, dbh, memDone, handles, hist, nops>>
    /\ UNCHANGED <<txVars, codec>>

\* impl.Retained (boltdb)
Retained ==
    /\ last' = [Call("boltdb", "Retained", "", IF IsClosed(done) THEN ErrNotOpen ELSE Nil)
                   EXCEPT !.handle = ~IsClosed(done)]
    /\ UNCHANGED <<db, done, dbh, memDone, handles, hist, nops>>
    /\ UNCHANGED <<txVars, codec>>

\* impl.Shutdown (boltdb), run without any other call in progress
Shutdown ==
    /\ ~IsClosed(done) => nops < MaxOps
    /\ nops' = IF IsClosed(done) THEN nops ELSE nops + 1
    /\ IF IsClosed(done)
       THEN /\ last' = Call("boltdb", "Shutdown", "", ErrNotOpen)
            /\ UNCHANGED <<done, dbh>>
       ELSE /\ done' = TRUE
            /\ dbh' = "nil"
            /\ last' = Call("boltdb", "Shutdown", "", IF dbh = "open" THEN Nil ELSE Panic)
    /\ UNCHANGED <<db, memDone, handles, hist>>
    /\ UNCHANGED <<txVars, codec>>

\* sessions.New
SessionsNew(id) ==
    /\ Budget
    /\ LET tx == SessionsNewTx(db, id)
       IN IF EarlyErr # Nil
          THEN /\ last' = Call("boltdb", "sessions.New", id, EarlyErr)
               /\ UNCHANGED <<db, handles>>
          ELSE /\ db' = tx.db
               /\ last' = [Call("boltdb", "sessions.New", id, SessionsNewErr(tx.err))
                              EXCEPT !.handle = SessionsNewHandle(tx.err)]
               /\ handles' = IF SessionsNewHandle(tx.err) THEN handles \cup {id} ELSE handles
    /\ hist' = IF EarlyErr = Nil /\ SessionsNewErr(SessionsNewTx(db, id).err) = Nil
               THEN [hist EXCEPT !.new = @ \cup {id}]
               ELSE hist
    /\ UNCHANGED <<done, dbh, memDone>>
    /\ UNCHANGED <<txVars, codec>>

\* sessions.Get
SessionsGet(id) ==
    /\ IF EarlyErr # Nil
       THEN /\ last' = Call("boltdb", "sessions.Get", id, EarlyErr)
            /\ UNCHANGED handles
       ELSE LET err == SessionsGetErr(db, id)
            IN /\ last' = [Call("boltdb", "sessions.Get", id, err) EXCEPT !.handle = (err = Nil)]
               /\ handles' = IF err = Nil THEN handles \cup {id} ELSE handles
    /\ UNCHANGED <<db, done, dbh, memDone, hist, nops>>
    /\ UNCHANGED <<txVars, codec>>

\* sessions.GetAll
SessionsGetAll ==
    /\ IF EarlyErr # Nil
       THEN /\ last' = Call("boltdb", "sessions.GetAll", "", EarlyErr)
            /\ UNCHANGED handles
       ELSE /\ last' = [Call("boltdb", "sessions.GetAll", "", SessionsGetAllErr(db))
                           EXCEPT !.ids = SessionsGetAllIds(db)]
            /\ handles' = handles \cup SessionsGetAllIds(db)
    /\ UNCHANGED <<db, done, dbh, memDone, hist, nops>>
    /\ UNCHANGED <<txVars, codec>>

\* sessions.Delete
SessionsDelete(id) ==
    /\ Budget
    /\ LET tx == SessionsDeleteTx(db, id)
       IN IF EarlyErr # Nil
          THEN /\ last' = Call("boltdb", "sessions.Delete", id, EarlyErr)
               /\ UNCHANGED <<db, hist>>
          ELSE /\ db' = tx.db
               /\ last' = [Call("boltdb", "sessions.Delete", id, SessionsDeleteErr(tx.err))
                              EXCEPT !.removed = IF tx.err = Nil THEN Stored(db, id) ELSE 0]
               /\ hist' = IF tx.err = Nil
                          THEN [hist EXCEPT !.ses[id] = [d \in Dirs |-> <<>>],
                                            !.new = @ \ {id}]
                          ELSE hist
    /\ UNCHANGED <<done, dbh, memDone, handles>>
    /\ UNCHANGED <<txVars, codec>>

\* session.Subscriptions, session.Messages, session.ID
SessionAccessor(op, id) ==
    /\ id \in handles
    /\ last' = [Call("boltdb", op, id, IF IsClosed(done) THEN ErrNotOpen ELSE Nil)
                   EXCEPT !.handle = ~IsClosed(done)]
    /\ UNCHANGED <<db, done, dbh, memDone, handles, hist, nops>>
    /\ UNCHANGED <<txVars, codec>>

SessionSubscriptions(id) == SessionAccessor("session.Subscriptions", id)
SessionMessages(id) == SessionAccessor("session.Messages", id)
SessionID(id) == SessionAccessor("session.ID", id)

\* subscriptions.Add
SubscriptionsAdd(id, subs, order) ==
    /\ id \in handles
    /\ Budget
    /\ LET tx == SubscriptionsAddTx(db, id, subs, order)
       IN IF EarlyErr # Nil
          THEN /\ last' = [Call("boltdb", "subscriptions.Add", id, EarlyErr) EXCEPT !.arg = subs]
               /\ UNCHANGED db
          ELSE /\ db' = tx.db
               /\ last' = [Call("boltdb", "subscriptions.Add", id, tx.err) EXCEPT !.arg = subs]
    /\ UNCHANGED <<done, dbh, memDone, handles, hist>>
    /\ UNCHANGED <<txVars, codec>>

\* subscriptions.Get
SubscriptionsGet(id) ==
    /\ id \in handles
    /\ IF EarlyErr # Nil
       THEN last' = Call("boltdb", "subscriptions.Get", id, EarlyErr)
       ELSE LET tx == SubscriptionsGetTx(db, id)
            IN last' = [Call("boltdb", "subscriptions.Get", id, tx.err)
                           EXCEPT !.subs = IF tx.err = Nil THEN tx.subs ELSE EmptyFn]
    /\ UNCHANGED <<db, done, dbh, memDone, handles, hist, nops>>
    /\ UNCHANGED <<txVars, codec>>

\* subscriptions.Delete
SubscriptionsDelete(id) ==
    /\ id \in handles
    /\ Budget
    /\ LET tx == SubscriptionsDeleteTx(db, id)
       IN IF EarlyErr # Nil
          THEN /\ last' = Call("boltdb", "subscriptions.Delete", id, EarlyErr)
               /\ UNCHANGED db
          ELSE /\ db' = tx.db
               /\ last' = Call("boltdb", "subscriptions.Delete", id, tx.err)
    /\ UNCHANGED <<done, dbh, memDone, handles, hist>>
    /\ UNCHANGED <<txVars, codec>>

\* messages.Store
MessagesStore(id, dir, msgs) ==
    /\ id \in handles
    /\ Budget
    /\ LET tx == MessagesStoreTx(db, id, dir, msgs)
           call(err) == [Call("boltdb", "messages.Store", id, err)
                            EXCEPT !.dir = dir, !.arg = msgs]
       IN IF EarlyErr # Nil
          THEN /\ last' = call(EarlyErr)
               /\ UNCHANGED <<db, hist>>
          ELSE /\ db' = tx.db
               /\ last' = call(tx.err)
               /\ hist' = IF tx.err = Nil
                          THEN [hist EXCEPT !.ses[id][dir] = @ \o msgs]
                          ELSE hist
    /\ UNCHANGED <<done, dbh, memDone, handles>>
    /\ UNCHANGED <<txVars, codec>>

\* messages.Load
MessagesLoad(id) ==
    /\ id \in handles
    /\ IF EarlyErr # Nil
       THEN last' = Call("boltdb", "messages.Load", id, EarlyErr)
       ELSE LET tx == MessagesLoadTx(db, id)
            IN last' = [Call("boltdb", "messages.Load", id, tx.err)
                           EXCEPT !.in = tx.in, !.out = tx.out]
    /\ UNCHANGED <<db, done, dbh, memDone, handles, hist, nops>>
    /\ UNCHANGED <<txVars, codec>>

\* messages.Delete
MessagesDelete(id) ==
    /\ id \in handles
    /\ Budget
    /\ LET tx == MessagesDeleteTx(db, id)
       IN IF EarlyErr # Nil
          THEN /\ last' = Call("boltdb", "messages.Delete", id, EarlyErr)
               /\ UNCHANGED <<db, hist>>
          ELSE /\ db' = tx.db
               /\ last' = Call("boltdb", "messages.Delete", id, tx.err)
               /\ hist' = IF tx.err = Nil
                          THEN [hist EXCEPT !.ses[id] = [d \in Dirs |-> <<>>]]
                          ELSE hist
    /\ UNCHANGED <<done, dbh, memDone, handles>>
    /\ UNCHANGED <<txVars, codec>>

\* retained.Load
RetainedLoad ==
    /\ IF EarlyErr # Nil
       THEN last' = Call("boltdb", "retained.Load", "", EarlyErr)
       ELSE LET tx == RetainedLoadTx(db)
            IN last' = [Call("boltdb", "retained.Load", "", tx.err) EXCEPT !.msgs = tx.msgs]
    /\ UNCHANGED <<db, done, dbh, memDone, handles, hist, nops>>
    /\ UNCHANGED <<txVars, codec>>

\* retained.Store
RetainedStore(msgs) ==
    /\ Budget
    /\ LET tx == RetainedStoreTx(db, msgs)
           call(err) == [Call("boltdb", "retained.Store", "", err) EXCEPT !.arg = msgs]
       IN IF EarlyErr # Nil
          THEN /\ last' = call(EarlyErr)
               /\ UNCHANGED <<db, hist>>
          ELSE /\ db' = tx.db
               /\ last' = call(tx.err)
               /\ hist' = IF tx.err = Nil
                          THEN [hist EXCEPT !.retained = @ \o msgs]
                          ELSE hist
    /\ UNCHANGED <<done, dbh, memDone, handles>>
    /\ UNCHANGED <<txVars, codec>>

\* retained.Delete
RetainedDelete ==
    /\ Budget
    /\ LET tx == RetainedDeleteTx(db)
       IN IF EarlyErr # Nil
          THEN /\ last' = Call("boltdb", "retained.Delete", "", EarlyErr)
               /\ UNCHANGED <<db, hist>>
          ELSE /\ db' = tx.db
               /\ last' = Call("boltdb", "retained.Delete", "", RetainedDeleteErr(tx.err))
               /\ hist' = IF tx.err = Nil THEN [hist EXCEPT !.retained = <<>>] ELSE hist
    /\ UNCHANGED <<done, dbh, memDone, handles>>
    /\ UNCHANGED <<txVars, codec>>

\* impl.System, impl.Sessions, impl.Retained (mem)
MemAccessor(op) ==
    /\ last' = [Call("mem", op, "", IF IsClosed(memDone) THEN ErrNotOpen ELSE Nil)
                   EXCEPT !.handle = ~IsClosed(memDone)]
    /\ UNCHANGED <<db, done, dbh, memDone, handles, hist, nops>>
    /\ UNCHANGED <<txVars, codec>>

MemSystem == MemAccessor("System")
MemSessions == MemAccessor("Sessions")
MemRetained == MemAccessor("Retained")

\* impl.Shutdown (mem), run without any other call in progress
MemShutdown ==
    /\ ~IsClosed(done) => nops < MaxOps
    /\ nops' = IF IsClosed(done) THEN nops ELSE nops + 1
    /\ IF IsClosed(memDone)
       THEN /\ last' = Call("mem", "Shutdown", "", ErrNotOpen)
            /\ UNCHANGED memDone
       ELSE /\ memDone' = TRUE
            /\ last' = Call("mem", "Shutdown", "", Nil)
    /\ UNCHANGED <<db, done, dbh, handles, hist>>
    /\ UNCHANGED <<txVars, codec>>

TxIdle ==
    /\ pc = <<>>
    /\ txk = <<>>
    /\ ret = <<>>
    /\ closes = 0
    /\ wgTx = 0
    /\ lock = "free"

CodecIdle == codec = <<>>

Init == StoreInit /\ TxIdle /\ CodecIdle

StoreNext ==
    \/ Sessions
    \/ Retained
    \/ Shutdown
    \/ \E id \in Ids : SessionsNew(id)
    \/ \E id \in Ids : SessionsGet(id)
    \/ SessionsGetAll
    \/ \E id \in Ids : SessionsDelete(id)
    \/ \E id \in Ids : SessionSubscriptions(id)
    \/ \E id \in Ids : SessionMessages(id)
    \/ \E id \in Ids : SessionID(id)
    \/ \E id \in Ids, subs \in SubMaps : \E order \in Orders(DOMAIN subs) :
          SubscriptionsAdd(id, subs, order)
    \/ \E id \in Ids : SubscriptionsGet(id)
    \/ \E id \in Ids : SubscriptionsDelete(id)
    \/ \E id \in Ids, dir \in Dirs, msgs \in MsgLists : MessagesStore(id, dir, msgs)
    \/ \E id \in Ids : MessagesLoad(id)
    \/ \E id \in Ids : MessagesDelete(id)
    \/ RetainedLoad
    \/ \E msgs \in MsgLists : RetainedStore(msgs)
    \/ RetainedDelete
    \/ MemSystem
    \/ MemSessions
    \/ MemRetained
    \/ MemShutdown

Next == StoreNext

Spec == Init /\ [][Next]_vars


----------------------------------------------------------------------------
(* The boltdb provider with calls running on several goroutines.  A worker *)
(* runs store calls, each a closed-check followed by a bolt transaction    *)
(* (db.View or db.Update) or, for the accessors, by nothing.  A closer     *)
(* runs Shutdown.  One statement of the code is one step.                  *)

Workers == {"w1", "w2"}
Closers == {"c1", "c2"}
TxKinds == {"View", "Update", "None"}

BoltErrDatabaseNotOpen == "bolt.ErrDatabaseNotOpen"

\* goroutines that passed the closed-check of a call that has not returned yet
InFlight == {w \in Workers : pc[w] \in {"checked", "tx"}}

\* goroutines inside a read-write transaction (they hold the rwlock of bolt.DB)
Writers == {w \in Workers : pc[w] = "tx" /\ txk[w] = "Update"}

\* sync.WaitGroup.Wait returns once the counter is zero
WaitDone(n) == n = 0

TxInit ==
    /\ pc = [g \in Workers \cup Closers |-> "idle"]
    /\ txk = [w \in Workers |-> "None"]
    /\ ret = [g \in Workers \cup Closers |-> "none"]
    /\ closes = 0
    /\ wgTx = 0
    /\ lock = "free"
    /\ done = FALSE
    /\ dbh = "open"
    /\ db = EmptyDB
    /\ memDone = FALSE
    /\ handles = {}
    /\ hist = NoHist
    /\ last = Call("", "open", "", Nil)
    /\ nops = 0
    /\ codec = <<>>

txRest == <<db, memDone, handles, hist, last, nops, codec>>

\* the select at the head of a store call
OpCheck(w, k) ==
    /\ pc[w] = "idle"
    /\ txk' = [txk EXCEPT ![w] = k]
    /\ IF IsClosed(done)
       THEN /\ ret' = [ret EXCEPT ![w] = ErrNotOpen]
            /\ UNCHANGED pc
       ELSE IF k = "None"
       THEN /\ ret' = [ret EXCEPT ![w] = Nil]
            /\ UNCHANGED pc
       ELSE /\ pc' = [pc EXCEPT ![w] = "checked"]
            /\ ret' = [ret EXCEPT ![w] = "none"]
    /\ UNCHANGED <<done, dbh, closes, wgTx, lock, txRest>>

\* s.db.db.View(...) / s.db.db.Update(...): the transaction begins
OpBegin(w) ==
    /\ pc[w] = "checked"
    /\ (txk[w] = "Update" /\ dbh = "open") => Writers = {}
    /\ IF dbh = "open"
       THEN /\ pc' = [pc EXCEPT ![w] = "tx"]
            /\ UNCHANGED ret
       ELSE /\ pc' = [pc EXCEPT ![w] = "idle"]
            /\ ret' = [ret EXCEPT ![w] = IF dbh = "nil" THEN Panic
                                         ELSE BoltErrDatabaseNotOpen]
    /\ UNCHANGED <<done, dbh, closes, wgTx, lock, txk, txRest>>

\* the transaction ends and the call returns
OpEnd(w) ==
    /\ pc[w] = "tx"
    /\ pc' = [pc EXCEPT ![w] = "idle"]
    /\ ret' = [ret EXCEPT ![w] = Nil]
    /\ UNCHANGED <<done, dbh, closes, wgTx, lock, txk, txRest>>

\* a goroutine calls Shutdown
ShutdownCall(c) ==
    /\ pc[c] = "idle"
    /\ pc' = [pc EXCEPT ![c] = "called"]
    /\ ret' = [ret EXCEPT ![c] = "none"]
    /\ UNCHANGED <<done, dbh, closes, wgTx, lock, txk, txRest>>

\* Shutdown without the mutex: the call goes on whoever holds the lock
ShutdownLockNoMutex(c) ==
    /\ pc[c] = "called"
    /\ lock' = c
    /\ pc' = [pc EXCEPT ![c] = "locked"]
    /\ UNCHANGED <<done, dbh, closes, wgTx, ret, txk, txRest>>

\* Shutdown: p.lock.Lock(), which blocks while another goroutine holds the lock
ShutdownLock(c) ==
    /\ pc[c] = "called"
    /\ lock = "free"
    /\ lock' = c
    /\ pc' = [pc EXCEPT ![c] = "locked"]
    /\ UNCHANGED <<done, dbh, closes, wgTx, ret, txk, txRest>>

\* Shutdown whose return of ErrNotOpen leaves the lock held
ShutdownCheckKeepsLock(c) ==
    /\ pc[c] = "locked"
    /\ IF IsClosed(done)
       THEN /\ pc' = [pc EXCEPT ![c] = "idle"]
            /\ ret' = [ret EXCEPT ![c] = ErrNotOpen]
            /\ UNCHANGED lock
       ELSE /\ pc' = [pc EXCEPT ![c] = "passed"]
            /\ UNCHANGED <<ret, lock>>
    /\ UNCHANGED <<done, dbh, closes, wgTx, txk, txRest>>

\* Shutdown: the select on done; ErrNotOpen and the deferred Unlock when closed
ShutdownCheck(c) ==
    /\ pc[c] = "locked"
    /\ IF IsClosed(done)
       THEN /\ pc' = [pc EXCEPT ![c] = "idle"]
            /\ ret' = [ret EXCEPT ![c] = ErrNotOpen]
            /\ lock' = "free"
       ELSE /\ pc' = [pc EXCEPT ![c] = "passed"]
            /\ UNCHANGED <<ret, lock>>
    /\ UNCHANGED <<done, dbh, closes, wgTx, txk, txRest>>

\* Shutdown: close(p.db.done)
ShutdownCloseDone(c) ==
    /\ pc[c] = "passed"
    /\ IF done
       THEN /\ pc' = [pc EXCEPT ![c] = "idle"]
            /\ ret' = [ret EXCEPT ![c] = Panic]
            /\ lock' = "free"
            /\ UNCHANGED done
       ELSE /\ done' = TRUE
            /\ pc' = [pc EXCEPT ![c] = "wait"]
            /\ UNCHANGED <<ret, lock>>
    /\ UNCHANGED <<dbh, closes, wgTx, txk, txRest>>

\* Shutdown: p.wgTx.Wait()
ShutdownWait(c) ==
    /\ pc[c] = "wait"
    /\ WaitDone(wgTx)
    /\ pc' = [pc EXCEPT ![c] = "close"]
    /\ UNCHANGED <<done, dbh, closes, wgTx, lock, ret, txk, txRest>>

\* Shutdown: err := p.db.db.Close(), which waits for the read-write transaction
ShutdownClose(c) ==
    /\ pc[c] = "close"
    /\ Writers = {}
    /\ dbh' = "closed"
    /\ closes' = closes + 1
    /\ pc' = [pc EXCEPT ![c] = "clear"]
    /\ UNCHANGED <<done, wgTx, lock, ret, txk, txRest>>

\* Shutdown: p.db.db = nil; return err, with the deferred Unlock
ShutdownReturn(c) ==
    /\ pc[c] = "clear"
    /\ dbh' = "nil"
    /\ lock' = "free"
    /\ pc' = [pc EXCEPT ![c] = "idle"]
    /\ ret' = [ret EXCEPT ![c] = Nil]
    /\ UNCHANGED <<done, closes, wgTx, txk, txRest>>

TxNext ==
    \/ \E w \in Workers, k \in TxKinds : OpCheck(w, k)
    \/ \E w \in Workers : OpBegin(w)
    \/ \E w \in Workers : OpEnd(w)
    \/ \E c \in Closers : ShutdownCall(c)
    \/ \E c \in Closers : ShutdownLock(c)
    \/ \E c \in Closers : ShutdownCheck(c)
    \/ \E c \in Closers : ShutdownCloseDone(c)
    \/ \E c \in Closers : ShutdownWait(c)
    \/ \E c \in Closers : ShutdownClose(c)
    \/ \E c \in Closers : ShutdownReturn(c)

SpecTx == TxInit /\ [][TxNext]_vars

\* Scheduling: a goroutine that can take its next step takes it (the Go
\* scheduler runs every runnable goroutine, and a bolt transaction that
\* began runs to its end); sync.Mutex hands the lock to a goroutine that
\* keeps waiting for it, though other goroutines take it in between.
TxFairness ==
    /\ \A w \in Workers : WF_vars(OpBegin(w)) /\ WF_vars(OpEnd(w))
    /\ \A c \in Closers :
          /\ SF_vars(ShutdownLock(c))
          /\ WF_vars(ShutdownCheck(c))
          /\ WF_vars(ShutdownCloseDone(c))
          /\ WF_vars(ShutdownWait(c))
          /\ WF_vars(ShutdownClose(c))
          /\ WF_vars(ShutdownReturn(c))

SpecTxLive == SpecTx /\ TxFairness

\* C1: the database is closed, and its handle cleared, only when no call that
\* passed the closed-check is still to finish its transaction; no transaction
\* starts or runs against a closed or nil database.
C1_CloseAfterInFlight ==
    /\ dbh # "open" => InFlight = {}
    /\ \A w \in Workers : ret[w] \notin {Panic, BoltErrDatabaseNotOpen}


----------------------------------------------------------------------------
(* The message codecs.  A buffer is a sequence of bytes (0..255).          *)

ErrInvalidLength == "ErrInvalidLength"
ErrInvalidMessageType == "ErrInvalidMessageType"
ErrInvalidMessageTypeFlags == "ErrInvalidMessageTypeFlags"
ErrInsufficientBufferSize == "ErrInsufficientBufferSize"
ErrInvalidReturnCode == "ErrInvalidReturnCode"
ErrPackedIDZero == "ErrPackedIDZero"

\* a buffer of n bytes as the caller hands it over, every byte 0xAA
FreshBuf(n) == [i \in 1..n |-> 170]

\* src[from+1 .. to] as a sequence (the Go slice src[from:to])
Slice(src, from, to) == [i \in 1..(to - from) |-> src[from + i]]

\* dst with bytes written at offset pos
WriteAt(dst, pos, bytes) ==
    [i \in 1..Len(dst) |->
        IF i > pos /\ i <= pos + Len(bytes) THEN bytes[i - pos] ELSE dst[i]]

\* Type.DefaultFlags that mandates no flag for any type
DefaultFlagsNone(t) == 0

\* Type.DefaultFlags: the flags nibble mandated for a packet type
DefaultFlags(t) == IF t \in {PUBREL, SUBSCRIBE, UNSUBSCRIBE} THEN 2 ELSE 0

\* QosType.IsValidFull: a valid return code of a SUBACK
IsValidFull(c) == c \in {0, 1, 2, 128}

RECURSIVE Pow128(_)
Pow128(k) == IF k = 0 THEN 1 ELSE 128 * Pow128(k - 1)

RECURSIVE VarintEncode(_)
\* the remaining length as 1 to 4 bytes, 7 bits each, top bit for continuation
VarintEncode(x) ==
    IF x < 128 THEN <<x>> ELSE <<(x % 128) + 128>> \o VarintEncode(x \div 128)

RECURSIVE VarintDecode(_, _, _, _)
\* the remaining length read from src after pos; k bytes read so far
VarintDecode(src, pos, k, acc) ==
    IF k = 4 \/ pos + 1 > Len(src) THEN [ok |-> FALSE, val |-> 0, m |-> k]
    ELSE LET b == src[pos + 1]
             v == acc + (b % 128) * Pow128(k)
         IN IF b < 128 THEN [ok |-> TRUE, val |-> v, m |-> k + 1]
            ELSE VarintDecode(src, pos + 1, k + 1, v)

\* header.decode: type and flags of byte 0, then the remaining length, which
\* may not exceed what the buffer holds after the header
HeaderDecode(src) ==
    LET t == src[1] \div 16
        f == src[1] % 16
        v == VarintDecode(src, 1, 0, 0)
        hdr(n, err) == [n |-> n, err |-> err, type |-> t, flags |-> f,
                        remLen |-> IF v.ok THEN v.val ELSE 0]
    IN IF Len(src) = 0
       THEN [n |-> 0, err |-> ErrInvalidLength, type |-> 0, flags |-> 0, remLen |-> 0]
       ELSE IF t \notin 1..14 THEN hdr(0, ErrInvalidMessageType)
       ELSE IF t # PUBLISH /\ f # DefaultFlags(t) THEN hdr(0, ErrInvalidMessageTypeFlags)
       ELSE IF ~v.ok THEN hdr(1 + v.m, ErrInvalidLength)
       ELSE IF v.val > Len(src) - (1 + v.m) THEN hdr(1 + v.m, ErrInvalidLength)
       ELSE hdr(1 + v.m, Nil)

\* header.encode: the bytes of the fixed header
HeaderEncode(msg, remLen) == <<msg.type * 16 + msg.flags>> \o VarintEncode(remLen)

\* a message: the header fields, the packet ID and the SUBACK return codes
Message(t, flags, id, codes) ==
    [type |-> t, flags |-> flags, remLen |-> 0, packetID |-> id, returnCodes |-> codes]

NewPubRelMessage == Message(PUBREL, 2, 0, <<>>)
NewSubAckMessage == Message(SUBACK, 0, 0, <<>>)

\* NewUnSubAckMessage: the packet ID is a byte slice, nil until it is set; the
\* message is dirty until it is decoded; dBuf is the buffer it was decoded from
NewUnSubAckMessage ==
    [type |-> UNSUBACK, flags |-> 0, remLen |-> 0, packetID |-> <<>>,
     returnCodes |-> <<>>, dirty |-> TRUE, dBuf |-> <<>>]

WithHeader(msg, h) == [msg EXCEPT !.type = h.type, !.flags = h.flags, !.remLen = h.remLen]

\* PubRelMessage.size, SubAckMessage.size
PubRelSize(msg) == 2
SubAckSize(msg) == 2 + Len(msg.returnCodes)

\* header.Size: the length of the whole packet, from the size of its body
Size(msg, body) == [n |-> 1 + Len(VarintEncode(body)) + body, err |-> Nil]

\* the outcome of a decode that stops with a run-time panic
DecodePanic(msg, n) == [msg |-> msg, n |-> n, err |-> Panic, over |-> FALSE]

\* PubRelMessage.decode
PubRelDecode(msg, src) ==
    LET h == HeaderDecode(src)
        m1 == WithHeader(msg, h)
    IN IF h.err # Nil THEN [msg |-> m1, n |-> h.n, err |-> h.err, over |-> FALSE]
       ELSE IF Len(src) - h.n < 2 THEN DecodePanic(m1, h.n)
       ELSE [msg |-> [m1 EXCEPT !.packetID = Uint16(Slice(src, h.n, h.n + 2))],
             n |-> h.n + 2, err |-> Nil, over |-> h.remLen < 2]

RECURSIVE FirstInvalid(_, _)
\* whether the validity loop of SubAckMessage.decode finds an invalid code
FirstInvalid(codes, i) ==
    IF i > Len(codes) THEN FALSE
    ELSE IF ~IsValidFull(codes[i]) THEN TRUE
    ELSE FirstInvalid(codes, i + 1)

\* SubAckMessage.decode
SubAckDecode(msg, src) ==
    LET h == HeaderDecode(src)
        m1 == WithHeader(msg, h)
        total == h.n + 2
        l == h.remLen - 2
        codes0 == IF Len(msg.returnCodes) < l THEN [i \in 1..l |-> 0] ELSE msg.returnCodes
        codes == [i \in 1..Len(codes0) |-> IF i <= l THEN src[total + i] ELSE codes0[i]]
        m2 == [m1 EXCEPT !.packetID = Uint16(Slice(src, h.n, h.n + 2)),
                         !.returnCodes = codes]
    IN IF h.err # Nil THEN [msg |-> m1, n |-> h.n, err |-> h.err, over |-> FALSE]
       ELSE IF Len(src) - h.n < 2 THEN DecodePanic(m1, h.n)
       ELSE IF l < 0 \/ total + l > Len(src)
            THEN DecodePanic([m1 EXCEPT !.packetID = Uint16(Slice(src, h.n, h.n + 2))], total)
       ELSE [msg |-> m2, n |-> total + Len(codes),
             err |-> IF FirstInvalid(codes, 1) THEN ErrInvalidReturnCode ELSE Nil,
             over |-> FALSE]

\* UnSubAckMessage.Decode; the slice src[total:total+2] may reach into the
\* capacity of src beyond its length (cap bytes are there in all, those
\* beyond the length read as 0)
UnSubAckDecode(msg, src, cap) ==
    LET h == HeaderDecode(src)
        m1 == WithHeader(msg, h)
        padded == src \o [i \in 1..(cap - Len(src)) |-> 0]
    IN IF h.err # Nil THEN [msg |-> m1, n |-> h.n, err |-> h.err, over |-> FALSE]
       ELSE IF h.n + 2 > cap THEN DecodePanic(m1, h.n)
       ELSE [msg |-> [m1 EXCEPT !.packetID = Slice(padded, h.n, h.n + 2),
                                !.dirty = FALSE, !.dBuf = src],
             n |-> h.n + 2, err |-> Nil,
             over |-> h.n + 2 > Len(src) \/ h.remLen < 2]

\* header.SetPacketID of an UnSubAckMessage: two bytes, big-endian
UnSubAckSetPacketID(msg, v) == [msg EXCEPT !.packetID = itob16(v), !.dirty = TRUE]

\* UnSubAckMessage.msgLen
UnSubAckMsgLen(msg) == 2

\* UnSubAckMessage.Len
UnSubAckLen(msg) ==
    IF ~msg.dirty THEN Len(msg.dBuf)
    ELSE 1 + Len(VarintEncode(UnSubAckMsgLen(msg))) + UnSubAckMsgLen(msg)

\* the bytes a dirty UnSubAckMessage is written as: the header, then the two
\* bytes of the packet ID, or 0 0 when copy does not find two bytes
UnSubAckBytes(msg) ==
    HeaderEncode(msg, UnSubAckMsgLen(msg))
        \o (IF Len(msg.packetID) >= 2 THEN Slice(msg.packetID, 0, 2) ELSE <<0, 0>>)

\* UnSubAckMessage.Encode
UnSubAckEncode(msg, dst) ==
    LET bytes == IF ~msg.dirty THEN msg.dBuf ELSE UnSubAckBytes(msg)
    IN IF Len(dst) < UnSubAckLen(msg)
       THEN [n |-> UnSubAckLen(msg), err |-> ErrInsufficientBufferSize, dst |-> dst]
       ELSE [n |-> Len(bytes), err |-> Nil, dst |-> WriteAt(dst, 0, bytes)]

\* PubRelMessage.preEncode without the [MQTT-2.3.1] check of the packet ID
PubRelPreEncodeUnchecked(msg, dst) ==
    LET bytes == HeaderEncode(msg, PubRelSize(msg)) \o itob16(msg.packetID)
    IN IF Len(dst) < Len(bytes) THEN [n |-> 0, err |-> Panic, dst |-> dst]
       ELSE [n |-> Len(bytes), err |-> Nil, dst |-> WriteAt(dst, 0, bytes)]

\* PubRelMessage.preEncode
PubRelPreEncode(msg, dst) ==
    IF msg.packetID = 0 THEN [n |-> 0, err |-> ErrPackedIDZero, dst |-> dst]
    ELSE LET bytes == HeaderEncode(msg, PubRelSize(msg)) \o itob16(msg.packetID)
         IN IF Len(dst) < Len(bytes) THEN [n |-> 0, err |-> Panic, dst |-> dst]
            ELSE [n |-> Len(bytes), err |-> Nil, dst |-> WriteAt(dst, 0, bytes)]

\* SubAckMessage.preEncode that leaves the return codes out of the packet
SubAckPreEncodeNoCodes(msg, dst) ==
    IF msg.packetID = 0 THEN [n |-> 0, err |-> ErrPackedIDZero, dst |-> dst]
    ELSE LET bytes == HeaderEncode(msg, 2) \o itob16(msg.packetID)
         IN IF Len(dst) < Len(bytes) THEN [n |-> 0, err |-> Panic, dst |-> dst]
            ELSE [n |-> Len(bytes), err |-> Nil, dst |-> WriteAt(dst, 0, bytes)]

\* SubAckMessage.preEncode
SubAckPreEncode(msg, dst) ==
    IF msg.packetID = 0 THEN [n |-> 0, err |-> ErrPackedIDZero, dst |-> dst]
    ELSE LET bytes == HeaderEncode(msg, SubAckSize(msg)) \o itob16(msg.packetID)
                         \o msg.returnCodes
         IN IF Len(dst) < Len(bytes) THEN [n |-> 0, err |-> Panic, dst |-> dst]
            ELSE [n |-> Len(bytes), err |-> Nil, dst |-> WriteAt(dst, 0, bytes)]

\* the body of Encode without the comparison of len(dst) with the size
EncodeWithoutSizeCheck(size, pre, dst) ==
    IF size.err # Nil THEN [n |-> 0, err |-> size.err, dst |-> dst]
    ELSE pre

\* the body of Encode, the same for PubRelMessage and SubAckMessage
EncodeWith(size, pre, dst) ==
    IF size.err # Nil THEN [n |-> 0, err |-> size.err, dst |-> dst]
    ELSE IF Len(dst) < size.n THEN [n |-> size.n, err |-> ErrInsufficientBufferSize, dst |-> dst]
    ELSE pre

\* PubRelMessage.Encode
PubRelEncode(msg, dst) ==
    EncodeWith(Size(msg, PubRelSize(msg)), PubRelPreEncode(msg, dst), dst)

\* SubAckMessage.Encode
SubAckEncode(msg, dst) ==
    EncodeWith(Size(msg, SubAckSize(msg)), SubAckPreEncode(msg, dst), dst)

\* the external buffer replaced by a new one on every Send
SendBufAlwaysNew(ext, size) == [i \in 1..size |-> 0]

\* the external buffer Send encodes into: kept when long enough, else a new
\* one of the expected size
SendBuf(ext, size) == IF Len(ext) < size THEN [i \in 1..size |-> 0] ELSE ext

\* buffer.Type.Send: the slices handed over are queued for the transport
SinkSend(sink, bytes) == Append(sink, bytes)

\* the body of Send, the same for PubRelMessage and SubAckMessage
SendWith(size, pre, ext, sink) ==
    IF size.err # Nil THEN [n |-> 0, err |-> size.err, ext |-> ext, sink |-> sink]
    ELSE IF pre.err # Nil
         THEN [n |-> 0, err |-> pre.err, ext |-> pre.dst, sink |-> sink]
    ELSE [n |-> pre.n, err |-> Nil, ext |-> pre.dst,
          sink |-> SinkSend(sink, Slice(pre.dst, 0, pre.n))]

\* PubRelMessage.Send
PubRelSend(msg, ext, sink) ==
    LET size == Size(msg, PubRelSize(msg))
    IN SendWith(size, PubRelPreEncode(msg, SendBuf(ext, size.n)), ext, sink)

\* SubAckMessage.Send
SubAckSend(msg, ext, sink) ==
    LET size == Size(msg, SubAckSize(msg))
    IN SendWith(size, SubAckPreEncode(msg, SendBuf(ext, size.n)), ext, sink)


\* UnSubAckMessage.Send
UnSubAckSend(msg, ext, sink) ==
    IF ~msg.dirty
    THEN [n |-> Len(msg.dBuf), err |-> Nil, ext |-> ext, sink |-> SinkSend(sink, msg.dBuf)]
    ELSE LET buf == WriteAt(SendBuf(ext, UnSubAckLen(msg)), 0, UnSubAckBytes(msg))
             total == Len(UnSubAckBytes(msg))
         IN [n |-> total, err |-> Nil, ext |-> buf,
             sink |-> SinkSend(sink, Slice(buf, 0, total))]

----------------------------------------------------------------------------
(* PINGREQ *)

NewPingReqMessage == Message(PINGREQ, 0, 0, <<>>)

\* PingReqMessage.decode
PingReqDecode(msg, src) ==
    LET h == HeaderDecode(src)
    IN [msg |-> WithHeader(msg, h), n |-> h.n, err |-> h.err, over |-> FALSE]

\* PingReqMessage.size
PingReqSize(msg) == 0

\* PingReqMessage.preEncode
PingReqPreEncode(msg, dst) ==
    LET bytes == HeaderEncode(msg, PingReqSize(msg))
    IN IF Len(dst) < Len(bytes) THEN [n |-> 0, err |-> Panic, dst |-> dst]
       ELSE [n |-> Len(bytes), err |-> Nil, dst |-> WriteAt(dst, 0, bytes)]

\* PingReqMessage.Encode
PingReqEncode(msg, dst) ==
    EncodeWith(Size(msg, PingReqSize(msg)), PingReqPreEncode(msg, dst), dst)

\* PingReqMessage.Send
PingReqSend(msg, ext, sink) ==
    LET size == Size(msg, PingReqSize(msg))
    IN SendWith(size, PingReqPreEncode(msg, SendBuf(ext, size.n)), ext, sink)

----------------------------------------------------------------------------
(* CONNACK: byte 1 carries the session-present bit, byte 2 the return code *)

ErrReservedBits == "reserved bits set"

\* the last valid ConnAckCode
ErrNotAuthorized == 5

\* ConnAckCode.Valid with the reserved border taken for a valid code
ConnAckCodeValidUpToReserved(cac) == cac <= ErrNotAuthorized + 1

\* ConnAckCode.Valid with the last valid code left out
ConnAckCodeValidBelowLast(cac) == cac < ErrNotAuthorized

\* ConnAckCode.Valid
ConnAckCodeValid(cac) == cac <= ErrNotAuthorized

NewConnAckMessage ==
    [type |-> CONNACK, flags |-> 0, remLen |-> 0, packetID |-> 0, returnCodes |-> <<>>,
     sessionPresent |-> FALSE, returnCode |-> 0]

\* ConnAckMessage.SetSessionPresent
SetSessionPresent(msg, v) == [msg EXCEPT !.sessionPresent = v]

\* ConnAckMessage.SetReturnCode
SetReturnCode(msg, code) ==
    IF ~ConnAckCodeValid(code) THEN [msg |-> msg, err |-> ErrInvalidReturnCode]
    ELSE [msg |-> [msg EXCEPT !.returnCode = code], err |-> Nil]

\* ConnAckMessage.size
ConnAckSize(msg) == 2

\* ConnAckMessage.decode
ConnAckDecode(msg, src) ==
    LET h == HeaderDecode(src)
        m1 == WithHeader(msg, h)
        fail(n, err) == [msg |-> m1, n |-> n, err |-> err, over |-> FALSE]
    IN IF h.err # Nil THEN fail(h.n, h.err)
       ELSE IF h.remLen # ConnAckSize(msg) THEN fail(h.n, ErrInvalidLength)
       ELSE IF src[h.n + 1] \div 2 # 0 THEN fail(h.n, ErrReservedBits)
       ELSE IF ~ConnAckCodeValid(src[h.n + 2]) THEN fail(h.n + 1, ErrInvalidReturnCode)
       ELSE [msg |-> [m1 EXCEPT !.sessionPresent = (src[h.n + 1] % 2 = 1),
                                !.returnCode = src[h.n + 2]],
             n |-> h.n + 2, err |-> Nil, over |-> FALSE]

\* ConnAckMessage.preEncode
ConnAckPreEncode(msg, dst) ==
    LET bytes == HeaderEncode(msg, ConnAckSize(msg))
                     \o <<IF msg.sessionPresent THEN 1 ELSE 0, msg.returnCode>>
    IN IF Len(dst) < Len(bytes) THEN [n |-> 0, err |-> Panic, dst |-> dst]
       ELSE [n |-> Len(bytes), err |-> Nil, dst |-> WriteAt(dst, 0, bytes)]

\* ConnAckMessage.Encode
ConnAckEncode(msg, dst) ==
    EncodeWith(Size(msg, ConnAckSize(msg)), ConnAckPreEncode(msg, dst), dst)

\* ConnAckMessage.Send
ConnAckSend(msg, ext, sink) ==
    LET size == Size(msg, ConnAckSize(msg))
    IN SendWith(size, ConnAckPreEncode(msg, SendBuf(ext, size.n)), ext, sink)

----------------------------------------------------------------------------
(* The dispatcher and the Provider interface *)

\* Decode that counts the type byte as consumed when it rejects the type
DecodeTypeByteConsumed(src) ==
    LET t == src[1] \div 16
        none(n, err) == [msg |-> Message(0, 0, 0, <<>>), n |-> n, err |-> err, over |-> FALSE]
        r == CASE t = CONNACK -> ConnAckDecode(NewConnAckMessage, src)
               [] t = PUBREL -> PubRelDecode(NewPubRelMessage, src)
               [] t = SUBACK -> SubAckDecode(NewSubAckMessage, src)
               [] t = PINGREQ -> PingReqDecode(NewPingReqMessage, src)
    IN IF Len(src) < 1 THEN none(0, ErrInvalidLength)
       ELSE IF t \notin 1..14 THEN none(1, ErrInvalidMessageType)
       ELSE IF r.err # Nil THEN [r EXCEPT !.msg = Message(0, 0, 0, <<>>)]
       ELSE r

\* Decode: the type nibble of byte 0 selects the message, whose decode does
\* the rest; no message is returned with an error
Decode(src) ==
    LET t == src[1] \div 16
        none(n, err) == [msg |-> Message(0, 0, 0, <<>>), n |-> n, err |-> err, over |-> FALSE]
        r == CASE t = CONNACK -> ConnAckDecode(NewConnAckMessage, src)
               [] t = PUBREL -> PubRelDecode(NewPubRelMessage, src)
               [] t = SUBACK -> SubAckDecode(NewSubAckMessage, src)
               [] t = PINGREQ -> PingReqDecode(NewPingReqMessage, src)
    IN IF Len(src) < 1 THEN none(0, ErrInvalidLength)
       ELSE IF t \notin 1..14 THEN none(0, ErrInvalidMessageType)
       ELSE IF r.err # Nil THEN [r EXCEPT !.msg = Message(0, 0, 0, <<>>)]
       ELSE r

\* Provider.Encode of a message of one of the types of this model
EncodeMsg(msg, dst) ==
    CASE msg.type = CONNACK -> ConnAckEncode(msg, dst)
      [] msg.type = PUBREL -> PubRelEncode(msg, dst)
      [] msg.type = SUBACK -> SubAckEncode(msg, dst)
      [] msg.type = PINGREQ -> PingReqEncode(msg, dst)

----------------------------------------------------------------------------
(* Length-prefixed bytes *)

ErrInvalidLPStringSize == "ErrInvalidLPStringSize"

maxLPString == 65535

\* writeLPBytes that looks at the destination before the length of the data
writeLPBytesBufferFirst(buf, b) ==
    IF Len(buf) < 2 + Len(b) THEN [n |-> 0, err |-> ErrInsufficientBufferSize, dst |-> buf]
    ELSE IF Len(b) > maxLPString THEN [n |-> 0, err |-> ErrInvalidLPStringSize, dst |-> buf]
    ELSE [n |-> 2 + Len(b), err |-> Nil, dst |-> WriteAt(buf, 0, itob16(Len(b)) \o b)]

\* writeLPBytes
writeLPBytes(buf, b) ==
    IF Len(b) > maxLPString THEN [n |-> 0, err |-> ErrInvalidLPStringSize, dst |-> buf]
    ELSE IF Len(buf) < 2 + Len(b) THEN [n |-> 0, err |-> ErrInsufficientBufferSize, dst |-> buf]
    ELSE [n |-> 2 + Len(b), err |-> Nil, dst |-> WriteAt(buf, 0, itob16(Len(b)) \o b)]

\* readLPBytes
readLPBytes(buf) ==
    LET n == Uint16(Slice(buf, 0, 2))
    IN IF Len(buf) < 2 THEN [b |-> <<>>, n |-> 0, err |-> ErrInsufficientBufferSize]
       ELSE IF Len(buf) - 2 < n THEN [b |-> <<>>, n |-> 2, err |-> ErrInsufficientBufferSize]
       ELSE [b |-> Slice(buf, 2, 2 + n), n |-> 2 + n, err |-> Nil]

RECURSIVE AddReturnCodes(_, _)
\* SubAckMessage.AddReturnCodes without the test of IsValidFull
AddReturnCodesUnchecked(msg, codes) ==
    [msg |-> [msg EXCEPT !.returnCodes = @ \o codes], err |-> Nil]

\* SubAckMessage.AddReturnCodes: appends the codes up to the first invalid one
AddReturnCodes(msg, codes) ==
    IF Len(codes) = 0 THEN [msg |-> msg, err |-> Nil]
    ELSE IF ~IsValidFull(Head(codes)) THEN [msg |-> msg, err |-> ErrInvalidReturnCode]
    ELSE AddReturnCodes([msg EXCEPT !.returnCodes = Append(@, Head(codes))], Tail(codes))

\* SubAckMessage.AddReturnCode
AddReturnCode(msg, code) == AddReturnCodes(msg, <<code>>)

\* SetPacketID
SetPacketID(msg, v) == [msg EXCEPT !.packetID = v]

----------------------------------------------------------------------------
(* The codecs applied to bounded inputs *)

\* first bytes: PUBREL, PUBREL with flags 0, SUBACK, UNSUBACK, PINGREQ, and
\* the reserved types 15 and 0
HeadBytes == {98, 96, 144, 176, 192, 240, 5}
BodyBytes == {0, 1, 2, 3, 128}
SrcBufs == {<<>>} \cup {<<h>> \o b : h \in HeadBytes, b \in SeqsUpTo(BodyBytes, MaxSrcLen - 1)}
PacketIDs == {0, 7, 258}
CodeLists == SeqsUpTo({0, 1, 2, 128}, MaxCodes)
\* return codes as a caller may hand them to AddReturnCodes, 3 being none
AnyCodeLists == SeqsUpTo({0, 1, 2, 3, 128}, MaxCodes)
\* whole SUBACK packets with packet ID 7 and up to MaxCodes return codes,
\* valid or not
SubAckBufs == {<<SUBACK * 16, 2 + Len(c), 0, 7>> \o c : c \in AnyCodeLists}
\* CONNACK packets, whole, cut short or too long, with good and bad contents
ConnAckBufs == {<<32>> \o b : b \in SeqsUpTo({0, 1, 2, 3, 5, 6, 64}, MaxSrcLen - 1)}
ConnAckCodes == (0..7) \cup {255}
ConnAckMsgs ==
    {SetSessionPresent(SetReturnCode(NewConnAckMessage, c).msg, sp) :
        c \in 0..ErrNotAuthorized, sp \in BOOLEAN}
UnSubAckMsgs ==
    {NewUnSubAckMessage} \cup {UnSubAckSetPacketID(NewUnSubAckMessage, v) : v \in PacketIDs}
\* the messages taken through Encode, Decode and Encode again
RoundTripMsgs ==
    {SetPacketID(NewPubRelMessage, v) : v \in {1, 7, 258, 65535}}
    \cup {SetPacketID(AddReturnCodes(NewSubAckMessage, codes).msg, v) :
            codes \in CodeLists, v \in PacketIDs \ {0}}
    \cup {NewPingReqMessage}
    \cup ConnAckMsgs
\* data and destination length handed to writeLPBytes: short data with
\* every destination length, and data of the longest length and one byte
\* more with a destination of 4 bytes
LPCases ==
    {<<b, n>> : b \in SeqsUpTo(BodyBytes, MaxCodes), n \in 0..MaxDstLen}
    \cup {<<[i \in 1..len |-> 0], 4>> : len \in {maxLPString, maxLPString + 1}}
LPBufs == SeqsUpTo({0, 1, 2}, MaxSrcLen - 1)
\* what follows the first byte of a packet: a remaining length and as many bytes
HeaderRests == {<<0>>, <<2, 0, 7>>}

NoMsg == Message(0, 0, 0, <<>>)

CodecCall(op) ==
    [op |-> op, src |-> <<>>, cap |-> 0, msg0 |-> NoMsg, msg |-> NoMsg, n |-> 0,
     err |-> Nil, over |-> FALSE, dst0 |-> <<>>, dst |-> <<>>,
     ext0 |-> <<>>, ext |-> <<>>, sink |-> <<>>,
     arg |-> 0, n2 |-> 0, err2 |-> Nil, out |-> <<>>]

Decoded(op, src, cap, r) ==
    [CodecCall(op) EXCEPT !.src = src, !.cap = cap, !.msg = r.msg, !.n = r.n,
                          !.err = r.err, !.over = r.over]

Encoded(op, msg, dst, r) ==
    [CodecCall(op) EXCEPT !.msg0 = msg, !.msg = msg, !.dst0 = dst, !.dst = r.dst,
                          !.n = r.n, !.err = r.err]

Sent(op, msg, ext, r) ==
    [CodecCall(op) EXCEPT !.msg0 = msg, !.msg = msg, !.ext0 = ext, !.ext = r.ext,
                          !.sink = r.sink, !.n = r.n, !.err = r.err]

\* the calls are independent of each other: each behaviour makes one call
CodecReady == codec.op = "none"

codecRest == <<db, done, dbh, wgTx, lock, memDone, handles, hist, last, nops,
               pc, txk, ret, closes>>

CodecInit ==
    /\ codec = CodecCall("none")
    /\ db = EmptyDB
    /\ done = FALSE
    /\ dbh = "open"
    /\ memDone = FALSE
    /\ handles = {}
    /\ hist = NoHist
    /\ last = Call("", "open", "", Nil)
    /\ nops = 0
    /\ TxIdle

\* Decode hands a buffer that starts with the PUBREL type to PubRelMessage.decode
DecodePubRel ==
    /\ CodecReady
    /\ \E src \in SrcBufs :
        /\ Len(src) > 0
        /\ src[1] \div 16 = PUBREL
        /\ codec' = Decoded("PubRel.decode", src, Len(src),
                            PubRelDecode(NewPubRelMessage, src))
    /\ UNCHANGED codecRest

\* Decode hands a buffer that starts with the SUBACK type to SubAckMessage.decode
DecodeSubAck ==
    /\ CodecReady
    /\ \E src \in SrcBufs \cup SubAckBufs :
        /\ Len(src) > 0
        /\ src[1] \div 16 = SUBACK
        /\ codec' = Decoded("SubAck.decode", src, Len(src),
                            SubAckDecode(NewSubAckMessage, src))
    /\ UNCHANGED codecRest

\* UnSubAckMessage.Decode on a buffer with up to two bytes of capacity beyond its length
DecodeUnSubAck ==
    /\ CodecReady
    /\ \E src \in SrcBufs, extra \in {0, 2} :
        /\ Len(src) > 0
        /\ codec' = Decoded("UnSubAck.Decode", src, Len(src) + extra,
                            UnSubAckDecode(NewUnSubAckMessage, src, Len(src) + extra))
    /\ UNCHANGED codecRest

\* PubRelMessage.Encode into a buffer of n bytes
EncodePubRel ==
    /\ CodecReady
    /\ \E id \in PacketIDs, n \in 0..MaxDstLen :
        LET msg == SetPacketID(NewPubRelMessage, id)
        IN codec' = Encoded("PubRel.Encode", msg, FreshBuf(n),
                            PubRelEncode(msg, FreshBuf(n)))
    /\ UNCHANGED codecRest

\* PubRelMessage.Send with an external buffer of n bytes
SendPubRel ==
    /\ CodecReady
    /\ \E id \in PacketIDs, n \in 0..MaxDstLen :
        LET msg == SetPacketID(NewPubRelMessage, id)
        IN codec' = Sent("PubRel.Send", msg, FreshBuf(n),
                         PubRelSend(msg, FreshBuf(n), <<>>))
    /\ UNCHANGED codecRest

\* SubAckMessage.Encode into a buffer of n bytes
EncodeSubAck ==
    /\ CodecReady
    /\ \E id \in PacketIDs, codes \in CodeLists, n \in 0..MaxDstLen :
        LET msg == SetPacketID(AddReturnCodes(NewSubAckMessage, codes).msg, id)
        IN codec' = Encoded("SubAck.Encode", msg, FreshBuf(n),
                            SubAckEncode(msg, FreshBuf(n)))
    /\ UNCHANGED codecRest

\* SubAckMessage.Send with an external buffer of n bytes
SendSubAck ==
    /\ CodecReady
    /\ \E id \in PacketIDs, codes \in CodeLists, n \in 0..MaxDstLen :
        LET msg == SetPacketID(AddReturnCodes(NewSubAckMessage, codes).msg, id)
        IN codec' = Sent("SubAck.Send", msg, FreshBuf(n),
                         SubAckSend(msg, FreshBuf(n), <<>>))
    /\ UNCHANGED codecRest

\* PingReqMessage.decode, reached through Decode
DecodePingReq ==
    /\ CodecReady
    /\ \E src \in SrcBufs :
        /\ Len(src) > 0
        /\ src[1] \div 16 = PINGREQ
        /\ codec' = Decoded("PingReq.decode", src, Len(src),
                            PingReqDecode(NewPingReqMessage, src))
    /\ UNCHANGED codecRest

\* Decode of a buffer that starts with the CONNACK type
DecodeConnAck ==
    /\ CodecReady
    /\ \E src \in ConnAckBufs :
        codec' = Decoded("ConnAck.Decode", src, Len(src), Decode(src))
    /\ UNCHANGED codecRest

\* Decode of an empty buffer or of one that starts with a reserved type
DecodeRejected ==
    /\ CodecReady
    /\ \E src \in SrcBufs :
        /\ Len(src) > 0 => src[1] \div 16 \notin 1..14
        /\ codec' = Decoded("Decode", src, Len(src), Decode(src))
    /\ UNCHANGED codecRest

\* UnSubAckMessage.Encode into a buffer of n bytes
EncodeUnSubAck ==
    /\ CodecReady
    /\ \E msg \in UnSubAckMsgs, n \in 0..MaxDstLen :
        codec' = Encoded("UnSubAck.Encode", msg, FreshBuf(n),
                         UnSubAckEncode(msg, FreshBuf(n)))
    /\ UNCHANGED codecRest

\* UnSubAckMessage.Send with an external buffer of n bytes
SendUnSubAck ==
    /\ CodecReady
    /\ \E msg \in UnSubAckMsgs, n \in 0..MaxDstLen :
        codec' = Sent("UnSubAck.Send", msg, FreshBuf(n),
                      UnSubAckSend(msg, FreshBuf(n), <<>>))
    /\ UNCHANGED codecRest

\* PingReqMessage.Encode into a buffer of n bytes
EncodePingReq ==
    /\ CodecReady
    /\ \E n \in 0..MaxDstLen :
        codec' = Encoded("PingReq.Encode", NewPingReqMessage, FreshBuf(n),
                         PingReqEncode(NewPingReqMessage, FreshBuf(n)))
    /\ UNCHANGED codecRest

\* PingReqMessage.Send with an external buffer of n bytes
SendPingReq ==
    /\ CodecReady
    /\ \E n \in 0..MaxDstLen :
        codec' = Sent("PingReq.Send", NewPingReqMessage, FreshBuf(n),
                      PingReqSend(NewPingReqMessage, FreshBuf(n), <<>>))
    /\ UNCHANGED codecRest

\* ConnAckMessage.Encode into a buffer of n bytes
EncodeConnAck ==
    /\ CodecReady
    /\ \E msg \in ConnAckMsgs, n \in 0..MaxDstLen :
        codec' = Encoded("ConnAck.Encode", msg, FreshBuf(n),
                         ConnAckEncode(msg, FreshBuf(n)))
    /\ UNCHANGED codecRest

\* ConnAckMessage.Send with an external buffer of n bytes
SendConnAck ==
    /\ CodecReady
    /\ \E msg \in ConnAckMsgs, n \in 0..MaxDstLen :
        codec' = Sent("ConnAck.Send", msg, FreshBuf(n),
                      ConnAckSend(msg, FreshBuf(n), <<>>))
    /\ UNCHANGED codecRest

\* ConnAckMessage.SetReturnCode on a message that holds a valid code
SetConnAckReturnCode ==
    /\ CodecReady
    /\ \E msg \in ConnAckMsgs, code \in ConnAckCodes :
        LET r == SetReturnCode(msg, code)
        IN codec' = [CodecCall("ConnAck.SetReturnCode") EXCEPT
                        !.msg0 = msg, !.arg = code, !.msg = r.msg, !.err = r.err]
    /\ UNCHANGED codecRest

\* SubAckMessage.AddReturnCodes, and AddReturnCode for a single code
AddCodes ==
    /\ CodecReady
    /\ \E codes \in AnyCodeLists, single \in BOOLEAN :
        /\ single => Len(codes) = 1
        /\ LET r == IF single THEN AddReturnCode(NewSubAckMessage, codes[1])
                    ELSE AddReturnCodes(NewSubAckMessage, codes)
           IN codec' = [CodecCall(IF single THEN "SubAck.AddReturnCode"
                                  ELSE "SubAck.AddReturnCodes") EXCEPT
                           !.msg0 = NewSubAckMessage, !.src = codes,
                           !.msg = r.msg, !.err = r.err]
    /\ UNCHANGED codecRest

\* Encode into a buffer of n bytes, Decode of that buffer, and Encode of the
\* message Decode returned
RoundTrip ==
    /\ CodecReady
    /\ \E msg \in RoundTripMsgs, n \in 0..MaxDstLen :
       \E e \in {EncodeMsg(msg, FreshBuf(n))} :
          IF e.err # Nil
          THEN codec' = Encoded("RoundTrip", msg, FreshBuf(n), e)
          ELSE \E d \in {Decode(e.dst)} :
                  IF d.err # Nil
                  THEN codec' = [Encoded("RoundTrip", msg, FreshBuf(n), e) EXCEPT
                                    !.msg = d.msg, !.n2 = d.n, !.err2 = d.err]
                  ELSE \E e2 \in {EncodeMsg(d.msg, FreshBuf(n))} :
                          codec' = [Encoded("RoundTrip", msg, FreshBuf(n), e) EXCEPT
                                       !.msg = d.msg, !.n2 = d.n, !.err2 = d.err,
                                       !.out = IF e2.err = Nil
                                               THEN Slice(e2.dst, 0, e2.n) ELSE <<>>]
    /\ UNCHANGED codecRest

\* writeLPBytes into a buffer of n bytes, and readLPBytes of what it wrote;
\* arg is the length of the data, src the data (left out when it is long)
WriteLP ==
    /\ CodecReady
    /\ \E c \in LPCases :
       \E w \in {writeLPBytes(FreshBuf(c[2]), c[1])} :
       \E r \in {IF w.err = Nil THEN readLPBytes(w.dst)
                  ELSE [b |-> <<>>, n |-> 0, err |-> Nil]} :
          codec' =
            [CodecCall("writeLPBytes") EXCEPT
                !.arg = Len(c[1]),
                !.src = IF Len(c[1]) <= MaxSrcLen THEN c[1] ELSE <<>>,
                !.dst0 = FreshBuf(c[2]), !.dst = w.dst, !.n = w.n,
                !.err = w.err, !.out = r.b, !.n2 = r.n, !.err2 = r.err]
    /\ UNCHANGED codecRest

\* readLPBytes
ReadLP ==
    /\ CodecReady
    /\ \E buf \in LPBufs :
        LET r == readLPBytes(buf)
        IN codec' = [CodecCall("readLPBytes") EXCEPT
                        !.src = buf, !.out = r.b, !.n = r.n, !.err = r.err]
    /\ UNCHANGED codecRest

\* header.decode of a first byte with type t and flags f, and Type.DefaultFlags
\* of t; arg is the mandated flags nibble
DecodeHeader ==
    /\ CodecReady
    /\ \E t \in 0..15, f \in 0..15, rest \in HeaderRests :
       \E h \in {HeaderDecode(<<t * 16 + f>> \o rest)} :
          codec' = [CodecCall("header.decode") EXCEPT
                       !.src = <<t * 16 + f>> \o rest, !.arg = DefaultFlags(t),
                       !.msg = WithHeader(NoMsg, h), !.n = h.n, !.err = h.err]
    /\ UNCHANGED codecRest

CodecNext ==
    \/ DecodeHeader
    \/ DecodePubRel
    \/ DecodeSubAck
    \/ DecodeUnSubAck
    \/ EncodePubRel
    \/ SendPubRel
    \/ EncodeSubAck
    \/ SendSubAck
    \/ DecodePingReq
    \/ DecodeConnAck
    \/ DecodeRejected
    \/ EncodeUnSubAck
    \/ SendUnSubAck
    \/ EncodePingReq
    \/ SendPingReq
    \/ EncodeConnAck
    \/ SendConnAck
    \/ SetConnAckReturnCode
    \/ AddCodes
    \/ RoundTrip
    \/ WriteLP
    \/ ReadLP

SpecCodec == CodecInit /\ [][CodecNext]_vars

----------------------------------------------------------------------------
(* Claims about the codecs (checked under SpecCodec) *)

\* the input has a valid fixed header but no room for the packet identifier
ShortOfPacketID(src) ==
    LET h == HeaderDecode(src)
    IN /\ h.err = Nil
       /\ (h.remLen < 2 \/ Len(src) - h.n < 2)

\* C9: decoding never panics nor reads outside the bytes it was given; for
\* PUBREL, SUBACK and UNSUBACK an input with a valid fixed header and a
\* remaining length (or buffer) too short for the packet identifier is an error.
C9_DecodeShortIsError ==
    codec.op \in {"PubRel.decode", "SubAck.decode", "UnSubAck.Decode"}
        => /\ codec.err # Panic
           /\ ~codec.over
           /\ ShortOfPacketID(codec.src) => codec.err # Nil

\* C10: with a destination of at least Size() bytes, Encode of a PUBREL or
\* SUBACK whose packet ID is 0 fails with ErrPackedIDZero and writes nothing;
\* Send fails with ErrPackedIDZero and hands nothing to the sink; a PUBREL
\* with packet ID 7 encodes to 0x62 0x02 0x00 0x07.
C10_PacketIDZero ==
    /\ (codec.op \in {"PubRel.Encode", "SubAck.Encode"} /\ codec.msg0.packetID = 0
          /\ Len(codec.dst0) >= Size(codec.msg0, SubAckSize(codec.msg0)).n)
        => /\ codec.err = ErrPackedIDZero
           /\ codec.dst = codec.dst0
    /\ (codec.op \in {"PubRel.Send", "SubAck.Send"} /\ codec.msg0.packetID = 0)
        => /\ codec.err = ErrPackedIDZero
           /\ codec.sink = <<>>
    /\ (codec.op = "PubRel.Encode" /\ codec.msg0.packetID = 7 /\ Len(codec.dst0) >= 4)
        => /\ codec.err = Nil
           /\ codec.n = 4
           /\ Slice(codec.dst, 0, 4) = <<98, 2, 0, 7>>

\* a SUBACK with return codes and packet ID 0 was refused by Encode
C10_Witness ==
    /\ codec.op = "SubAck.Encode"
    /\ codec.msg0.packetID = 0
    /\ Len(codec.msg0.returnCodes) > 0
    /\ Len(codec.dst0) >= Size(codec.msg0, SubAckSize(codec.msg0)).n
    /\ codec.err = ErrPackedIDZero


\* an UNSUBACK whose packet identifier was never set, or was set to zero
UnSubAckIDUnset(msg) == msg.dirty /\ msg.packetID \in {<<>>, <<0, 0>>}

\* C11: Encode and Send of an UNSUBACK whose packet identifier has not been
\* set (absent or zero) fail with an error; Encode writes nothing and Send
\* hands nothing to the sink, so no packet with identifier bytes 0x00 0x00
\* is emitted.
C11_UnSubAckIDRequired ==
    /\ (codec.op = "UnSubAck.Encode" /\ UnSubAckIDUnset(codec.msg0))
        => /\ codec.err # Nil
           /\ codec.dst = codec.dst0
    /\ (codec.op = "UnSubAck.Send" /\ UnSubAckIDUnset(codec.msg0))
        => /\ codec.err # Nil
           /\ codec.sink = <<>>

\* the four bytes of a CONNACK with session-present flag sp and return code c
ConnAckWire(sp, c) == <<CONNACK * 16, 2, IF sp THEN 1 ELSE 0, c>>

\* C12: for every session-present flag s and every return code c in 0..5, a
\* CONNACK encodes to exactly the 4 bytes 0x20 0x02 s c; Decode of those bytes
\* yields a CONNACK with the same s and c and reports 4 bytes consumed; the
\* decoded message encodes to the same bytes again.
C12_ConnAckRoundTrip ==
    /\ (codec.op = "RoundTrip" /\ codec.msg0.type = CONNACK /\ Len(codec.dst0) >= 4)
        => /\ codec.err = Nil
           /\ codec.n = 4
           /\ Slice(codec.dst, 0, 4)
                = ConnAckWire(codec.msg0.sessionPresent, codec.msg0.returnCode)
           /\ codec.err2 = Nil
           /\ codec.n2 = 4
           /\ codec.msg.type = CONNACK
           /\ codec.msg.sessionPresent = codec.msg0.sessionPresent
           /\ codec.msg.returnCode = codec.msg0.returnCode
           /\ codec.out = Slice(codec.dst, 0, 4)
    /\ \A sp \in BOOLEAN, c \in 0..ErrNotAuthorized :
        (codec.op = "ConnAck.Decode" /\ codec.src = ConnAckWire(sp, c))
            => /\ codec.err = Nil
               /\ codec.n = 4
               /\ codec.msg.type = CONNACK
               /\ codec.msg.sessionPresent = sp
               /\ codec.msg.returnCode = c

\* a CONNACK with the session-present flag and the last valid return code
\* went through Encode, Decode and Encode again
C12_Witness ==
    /\ codec.op = "RoundTrip"
    /\ codec.msg0.type = CONNACK
    /\ codec.msg0.sessionPresent
    /\ codec.msg0.returnCode = ErrNotAuthorized
    /\ codec.n2 = 4
    /\ codec.out = <<32, 2, 1, 5>>

\* C13: invalid CONNACK contents are rejected: Decode of a CONNACK with a
\* return-code byte of 6 or more fails (with ErrInvalidReturnCode when the
\* flags byte is in order) and so does Decode with any of bits 1..7 of the
\* session-present byte set, and neither returns a packet; SetReturnCode
\* returns an error for a code of 6 or more and keeps the code set before;
\* ConnAckCode.Valid is true exactly for 0..5.
C13_ConnAckRejectsInvalid ==
    /\ (codec.op = "ConnAck.Decode" /\ Len(codec.src) >= 4 /\ codec.src[2] = 2)
        => /\ codec.src[4] > ErrNotAuthorized
                => /\ codec.err # Nil
                   /\ codec.msg = NoMsg
                   /\ codec.src[3] <= 1 => codec.err = ErrInvalidReturnCode
           /\ codec.src[3] > 1
                => /\ codec.err # Nil
                   /\ codec.msg = NoMsg
    /\ codec.op = "ConnAck.SetReturnCode"
        => /\ ConnAckCodeValid(codec.arg) <=> codec.arg \in 0..5
           /\ codec.arg >= 6
                => /\ codec.err # Nil
                   /\ codec.msg.returnCode = codec.msg0.returnCode
           /\ codec.arg <= 5
                => /\ codec.err = Nil
                   /\ codec.msg.returnCode = codec.arg

\* the bytes 0x20 0x02 0x00 0x06 were refused with ErrInvalidReturnCode
C13_Witness ==
    /\ codec.op = "ConnAck.Decode"
    /\ codec.src = <<32, 2, 0, 6>>
    /\ codec.err = ErrInvalidReturnCode

\* SetReturnCode(6) on a message that carried code 3 failed and left it at 3
C13_WitnessSet ==
    /\ codec.op = "ConnAck.SetReturnCode"
    /\ codec.arg = 6
    /\ codec.msg0.returnCode = 3
    /\ codec.err # Nil
    /\ codec.msg.returnCode = 3

\* C14: whenever decode of a PINGREQ, PUBREL or SUBACK succeeds, the number
\* of bytes it reports as consumed is the length of the fixed header plus the
\* declared remaining length; a PINGREQ with a remaining length other than 0
\* or a PUBREL with one other than 2 is never accepted with a smaller count.
C14_DecodeConsumesRemLen ==
    (codec.op \in {"PingReq.decode", "PubRel.decode", "SubAck.decode"} /\ codec.err = Nil)
        => codec.n = HeaderDecode(codec.src).n + HeaderDecode(codec.src).remLen

\* the length of the packet a message is written as
WireLen(msg) ==
    2 + (CASE msg.type = PINGREQ -> 0
           [] msg.type = PUBREL -> 2
           [] msg.type = SUBACK -> 2 + Len(msg.returnCodes)
           [] msg.type = CONNACK -> 2
           [] msg.type = UNSUBACK -> 2)

\* C15: a PUBREL (packet ID 1..65535), a SUBACK (non-zero packet ID, return
\* codes from {0, 1, 2, 0x80}) or a PINGREQ is encoded into any buffer long
\* enough, and Decode of what Encode wrote yields a message of the same type
\* with the same packet ID and the same return codes in the same order, and
\* consumes exactly the bytes Encode wrote.
C15_EncodeDecodeRoundTrip ==
    (codec.op = "RoundTrip" /\ codec.msg0.type \in {PUBREL, SUBACK, PINGREQ})
        => /\ Len(codec.dst0) >= WireLen(codec.msg0) => codec.err = Nil
           /\ codec.err = Nil
                => /\ codec.n = WireLen(codec.msg0)
                   /\ codec.err2 = Nil
                   /\ codec.msg.type = codec.msg0.type
                   /\ codec.msg.packetID = codec.msg0.packetID
                   /\ codec.msg.returnCodes = codec.msg0.returnCodes
                   /\ codec.n2 = codec.n

\* a SUBACK with packet ID 258 and two different return codes came back
\* from the six bytes it was encoded as
C15_Witness ==
    /\ codec.op = "RoundTrip"
    /\ codec.msg0.type = SUBACK
    /\ codec.msg0.packetID = 258
    /\ codec.msg0.returnCodes = <<128, 1>>
    /\ codec.err = Nil
    /\ codec.err2 = Nil
    /\ codec.n2 = 6
    /\ codec.msg.returnCodes = <<128, 1>>

EncodeOps ==
    {"ConnAck.Encode", "PingReq.Encode", "PubRel.Encode", "SubAck.Encode",
     "UnSubAck.Encode"}

\* C16: Encode of a CONNACK, PINGREQ, PUBREL, SUBACK or UNSUBACK into a
\* destination shorter than the size of the message fails with
\* ErrInsufficientBufferSize, returns the size that is needed, and leaves
\* every byte of the destination as it was.
C16_EncodeShortBuffer ==
    (codec.op \in EncodeOps /\ Len(codec.dst0) < WireLen(codec.msg0))
        => /\ codec.err = ErrInsufficientBufferSize
           /\ codec.n = WireLen(codec.msg0)
           /\ codec.dst = codec.dst0

\* Encode of a SUBACK of six bytes into a buffer of five failed
C16_Witness ==
    /\ codec.op = "SubAck.Encode"
    /\ codec.msg0.packetID = 7
    /\ Len(codec.msg0.returnCodes) = 2
    /\ Len(codec.dst0) = 5
    /\ codec.err = ErrInsufficientBufferSize
    /\ codec.n = 6

SendOps == {"ConnAck.Send", "PingReq.Send", "PubRel.Send", "SubAck.Send", "UnSubAck.Send"}

\* what Encode of msg into a buffer of just the size of the message returns
EncodeExact(msg) ==
    IF msg.type = UNSUBACK THEN UnSubAckEncode(msg, FreshBuf(WireLen(msg)))
    ELSE EncodeMsg(msg, FreshBuf(WireLen(msg)))

\* C17: Send hands the sink exactly the bytes Encode produces for the same
\* message, and nothing when Encode fails; an external buffer shorter than
\* the size of the message is replaced by a new one of exactly that size,
\* and a buffer that is long enough is used as it is: it keeps its length
\* and the bytes after the packet.
C17_SendAsEncode ==
    codec.op \in SendOps
        => /\ EncodeExact(codec.msg0).err = Nil
                => /\ codec.err = Nil
                   /\ codec.sink = <<Slice(EncodeExact(codec.msg0).dst, 0,
                                           EncodeExact(codec.msg0).n)>>
                   /\ Slice(codec.ext, 0, WireLen(codec.msg0)) = codec.sink[1]
           /\ EncodeExact(codec.msg0).err # Nil
                => /\ codec.err = EncodeExact(codec.msg0).err
                   /\ codec.sink = <<>>
           /\ Len(codec.ext0) < WireLen(codec.msg0)
                => Len(codec.ext) = WireLen(codec.msg0)
           /\ Len(codec.ext0) >= WireLen(codec.msg0)
                => /\ Len(codec.ext) = Len(codec.ext0)
                   /\ Slice(codec.ext, WireLen(codec.msg0), Len(codec.ext))
                        = Slice(codec.ext0, WireLen(codec.msg0), Len(codec.ext0))

\* Send of a PUBREL with an external buffer of six bytes handed over the
\* four bytes of the packet and kept the buffer
C17_Witness ==
    /\ codec.op = "PubRel.Send"
    /\ codec.msg0.packetID = 258
    /\ Len(codec.ext0) = 6
    /\ codec.sink = << <<98, 2, 1, 2>> >>
    /\ codec.ext = <<98, 2, 1, 2, 170, 170>>

\* Send of a SUBACK with an external buffer of one byte replaced the buffer
C17_WitnessGrown ==
    /\ codec.op = "SubAck.Send"
    /\ codec.msg0.packetID = 7
    /\ Len(codec.msg0.returnCodes) = 1
    /\ Len(codec.ext0) = 1
    /\ Len(codec.ext) = 5
    /\ Len(codec.sink) = 1

\* the bytes of a SUBACK packet after the packet ID, as the header declares
WireCodes(src) ==
    Slice(src, HeaderDecode(src).n + 2, HeaderDecode(src).n + HeaderDecode(src).remLen)

OutOfSet(codes) == \E i \in 1..Len(codes) : codes[i] \notin {0, 1, 2, 128}

\* C18: the return codes of a SUBACK are restricted to {0, 1, 2, 0x80}:
\* AddReturnCodes and AddReturnCode fail with ErrInvalidReturnCode when given
\* any other value and otherwise append what they were given; decode of a
\* packet with a byte outside the set among its return codes fails with
\* ErrInvalidReturnCode; a successful decode into a new message yields the
\* (remaining length - 2) return codes of the packet in their order.
C18_SubAckReturnCodes ==
    /\ codec.op \in {"SubAck.AddReturnCodes", "SubAck.AddReturnCode"}
        => /\ OutOfSet(codec.src) => codec.err = ErrInvalidReturnCode
           /\ ~OutOfSet(codec.src)
                => /\ codec.err = Nil
                   /\ codec.msg.returnCodes = codec.src
    /\ (codec.op = "SubAck.decode" /\ HeaderDecode(codec.src).err = Nil
          /\ HeaderDecode(codec.src).remLen >= 2)
        => /\ OutOfSet(WireCodes(codec.src)) => codec.err = ErrInvalidReturnCode
           /\ ~OutOfSet(WireCodes(codec.src)) => codec.err = Nil
           /\ codec.err = Nil
                => /\ Len(codec.msg.returnCodes) = HeaderDecode(codec.src).remLen - 2
                   /\ codec.msg.returnCodes = WireCodes(codec.src)

\* a SUBACK packet with the return codes 0x80, 1 was decoded
C18_Witness ==
    /\ codec.op = "SubAck.decode"
    /\ codec.src = <<144, 4, 0, 7, 128, 1>>
    /\ codec.err = Nil
    /\ codec.msg.returnCodes = <<128, 1>>

\* a SUBACK packet with the return code 3 was refused
C18_WitnessRefused ==
    /\ codec.op = "SubAck.decode"
    /\ codec.src = <<144, 4, 0, 7, 1, 3>>
    /\ codec.err = ErrInvalidReturnCode

\* C19: the dispatcher Decode rejects what it cannot type: an empty buffer
\* fails with ErrInvalidLength and 0 bytes consumed; a buffer whose type
\* nibble is 0 or 15 fails with ErrInvalidMessageType, 0 bytes consumed and
\* no packet returned.
C19_DecodeRejectsUntyped ==
    codec.op = "Decode"
        => /\ Len(codec.src) = 0
                => /\ codec.err = ErrInvalidLength
                   /\ codec.n = 0
                   /\ codec.msg = NoMsg
           /\ (Len(codec.src) > 0 /\ codec.src[1] \div 16 \in {0, 15})
                => /\ codec.err = ErrInvalidMessageType
                   /\ codec.n = 0
                   /\ codec.msg = NoMsg

\* a buffer that starts with type nibble 15 and goes on with a well-formed
\* remaining length was rejected
C19_Witness ==
    /\ codec.op = "Decode"
    /\ Len(codec.src) = 4
    /\ codec.src[1] = 240
    /\ codec.src[2] = 2
    /\ codec.err = ErrInvalidMessageType
    /\ codec.n = 0

\* the empty buffer was rejected
C19_WitnessEmpty ==
    /\ codec.op = "Decode"
    /\ codec.src = <<>>
    /\ codec.err = ErrInvalidLength

\* the length the first two bytes of buf declare
DeclaredLen(buf) == buf[1] * 256 + buf[2]

\* C20: for data s of at most 65535 bytes and a destination of at least
\* len(s) + 2 bytes, writeLPBytes writes the length of s as two bytes,
\* big-endian, then s, and returns len(s) + 2, and readLPBytes of what was
\* written returns s and len(s) + 2 with no error, also for an empty s;
\* writeLPBytes fails with ErrInvalidLPStringSize when s is longer than 65535
\* bytes, whatever the destination, and with ErrInsufficientBufferSize when
\* only the destination is too short; readLPBytes fails with
\* ErrInsufficientBufferSize on a buffer shorter than the two bytes of the
\* length or than the length they declare, and otherwise returns the
\* declared bytes.
C20_LPBytes ==
    /\ codec.op = "writeLPBytes"
        => /\ (codec.arg <= 65535 /\ Len(codec.dst0) >= codec.arg + 2)
                => /\ codec.err = Nil
                   /\ codec.n = codec.arg + 2
                   /\ Slice(codec.dst, 0, 2) = <<codec.arg \div 256, codec.arg % 256>>
                   /\ Slice(codec.dst, 2, codec.arg + 2) = codec.src
                   /\ codec.err2 = Nil
                   /\ codec.out = codec.src
                   /\ codec.n2 = codec.arg + 2
           /\ codec.arg > 65535 => codec.err = ErrInvalidLPStringSize
           /\ (codec.arg <= 65535 /\ Len(codec.dst0) < codec.arg + 2)
                => codec.err = ErrInsufficientBufferSize
           /\ codec.err # Nil => codec.dst = codec.dst0
    /\ codec.op = "readLPBytes"
        => /\ Len(codec.src) < 2 => codec.err = ErrInsufficientBufferSize
           /\ (Len(codec.src) >= 2 /\ Len(codec.src) - 2 < DeclaredLen(codec.src))
                => codec.err = ErrInsufficientBufferSize
           /\ (Len(codec.src) >= 2 /\ Len(codec.src) - 2 >= DeclaredLen(codec.src))
                => /\ codec.err = Nil
                   /\ codec.n = DeclaredLen(codec.src) + 2
                   /\ codec.out = Slice(codec.src, 2, 2 + DeclaredLen(codec.src))

\* two bytes were written with their length in front and read back
C20_Witness ==
    /\ codec.op = "writeLPBytes"
    /\ codec.src = <<128, 3>>
    /\ Len(codec.dst0) = 6
    /\ codec.n = 4
    /\ Slice(codec.dst, 0, 4) = <<0, 2, 128, 3>>
    /\ codec.out = <<128, 3>>
    /\ codec.n2 = 4

\* data of 65536 bytes was refused though the destination was too short too
C20_WitnessTooLong ==
    /\ codec.op = "writeLPBytes"
    /\ codec.arg = 65536
    /\ Len(codec.dst0) = 4
    /\ codec.err = ErrInvalidLPStringSize

\* the empty data was written as 0 0 and read back as empty
C20_WitnessEmpty ==
    /\ codec.op = "writeLPBytes"
    /\ codec.arg = 0
    /\ codec.n = 2
    /\ codec.out = <<>>
    /\ codec.err2 = Nil

\* the flags nibble the protocol mandates for packet type t
MandatedFlags(t) == IF t \in {6, 8, 10} THEN 2 ELSE 0

DecodeOps ==
    {"header.decode", "PubRel.decode", "SubAck.decode", "UnSubAck.Decode",
     "PingReq.decode", "ConnAck.Decode"}

\* C21: DefaultFlags is 0x02 for PUBREL, SUBSCRIBE and UNSUBSCRIBE and 0 for
\* every other type, the reserved 0 and 15 included; a new PUBREL carries the
\* flags 0x02 and is encoded with them; decoding a packet of a type other
\* than PUBLISH whose flags nibble is not the mandated one fails with
\* ErrInvalidMessageTypeFlags.
C21_FixedHeaderFlags ==
    /\ codec.op = "header.decode"
        => codec.arg = MandatedFlags(codec.src[1] \div 16)
    /\ codec.op = "PubRel.Encode"
        => /\ NewPubRelMessage.flags = 2
           /\ codec.msg0.flags = 2
           /\ codec.err = Nil => codec.dst[1] = 98
    /\ (codec.op \in DecodeOps /\ Len(codec.src) > 0
          /\ codec.src[1] \div 16 \in (1..14) \ {PUBLISH}
          /\ codec.src[1] % 16 # MandatedFlags(codec.src[1] \div 16))
        => codec.err = ErrInvalidMessageTypeFlags
    /\ (codec.op = "header.decode" /\ codec.src[1] \div 16 \in 1..14
          /\ codec.src[1] % 16 = MandatedFlags(codec.src[1] \div 16))
        => codec.err = Nil

\* a SUBACK header with flags 0x01 was refused
C21_Witness ==
    /\ codec.op = "header.decode"
    /\ codec.src = <<145, 2, 0, 7>>
    /\ codec.arg = 0
    /\ codec.err = ErrInvalidMessageTypeFlags

----------------------------------------------------------------------------
(* Claims about concurrent Shutdown calls (checked under SpecTx, SpecTxLive) *)

\* C22: every call of Shutdown on the boltdb provider returns in the end,
\* whatever store calls and other Shutdown calls run at the same time, given
\* that every transaction that began comes to its end.
C22_ShutdownReturns ==
    \A c \in Closers : (pc[c] # "idle") ~> (pc[c] = "idle")

\* one Shutdown waits for a read-write transaction to end while the other
\* waits for the lock
C22_Witness ==
    /\ pc["c1"] = "close"
    /\ Writers # {}
    /\ pc["c2"] = "called"

\* C23: however many goroutines call Shutdown on the boltdb provider at the
\* same time, the database is closed by one call only and only once, that
\* call returns what Close returned, and every other call returns ErrNotOpen
\* and leaves the database, its handle and the done channel as they were.
C23_OneShutdownCloses ==
    /\ [](/\ closes <= 1
          /\ \A c \in Closers :
                /\ ret[c] \in {"none", Nil, ErrNotOpen}
                /\ ret[c] = Nil => closes = 1 /\ dbh = "nil"
                /\ ret[c] = ErrNotOpen => closes = 1 /\ dbh = "nil" /\ done
          /\ \A c, o \in Closers : (ret[c] = Nil /\ ret[o] = Nil) => c = o)
    /\ [][\A c \in Closers :
            /\ (ret'[c] = ErrNotOpen /\ ret[c] # ErrNotOpen)
                => (dbh' = dbh /\ closes' = closes /\ done' = done /\ db' = db)
            /\ (ret'[c] = Nil /\ ret[c] # Nil) => pc[c] = "clear"
            /\ closes' # closes => (pc[c] = "close" <=> lock = c)]_vars

\* both goroutines called Shutdown: one closed the database and returned nil,
\* the other returned ErrNotOpen
C23_Witness ==
    /\ pc["c1"] = "idle"
    /\ pc["c2"] = "idle"
    /\ ret["c1"] = ErrNotOpen
    /\ ret["c2"] = Nil
    /\ closes = 1

----------------------------------------------------------------------------
(* The mem provider with Shutdown running on several goroutines, one       *)
(* statement per step.  It has no lock: the select on status.done and the  *)
(* close in its default branch are two steps.                              *)

MemClosers == {"m1", "m2", "m3"}

MemTxInit ==
    /\ pc = [g \in MemClosers |-> "idle"]
    /\ ret = [g \in MemClosers |-> "none"]
    /\ txk = <<>>
    /\ closes = 0
    /\ wgTx = 0
    /\ lock = "free"
    /\ done = FALSE
    /\ dbh = "open"
    /\ db = EmptyDB
    /\ memDone = FALSE
    /\ handles = {}
    /\ hist = NoHist
    /\ last = Call("", "open", "", Nil)
    /\ nops = 0
    /\ codec = <<>>

memTxRest == <<db, done, dbh, wgTx, lock, txk, handles, hist, last, nops, codec>>

\* Shutdown (mem): the select on p.status.done
MemShutdownSelect(g) ==
    /\ pc[g] = "idle"
    /\ IF IsClosed(memDone)
       THEN /\ ret' = [ret EXCEPT ![g] = ErrNotOpen]
            /\ UNCHANGED pc
       ELSE /\ pc' = [pc EXCEPT ![g] = "default"]
            /\ ret' = [ret EXCEPT ![g] = "none"]
    /\ UNCHANGED <<memDone, closes, memTxRest>>

\* Shutdown (mem): close(p.status.done) in the default branch, then return nil;
\* closing a channel that is closed already is a run-time panic
MemShutdownCloseDone(g) ==
    /\ pc[g] = "default"
    /\ pc' = [pc EXCEPT ![g] = "idle"]
    /\ IF memDone
       THEN /\ ret' = [ret EXCEPT ![g] = Panic]
            /\ UNCHANGED <<memDone, closes>>
       ELSE /\ memDone' = TRUE
            /\ closes' = closes + 1
            /\ ret' = [ret EXCEPT ![g] = Nil]
    /\ UNCHANGED memTxRest

\* the accessors, a single select each, run between the steps of Shutdown
MemTxNext ==
    \/ \E g \in MemClosers : MemShutdownSelect(g)
    \/ \E g \in MemClosers : MemShutdownCloseDone(g)
    \/ MemSystem
    \/ MemSessions
    \/ MemRetained

SpecMemTx == MemTxInit /\ [][MemTxNext]_vars

\* C24: however many goroutines call Shutdown on the mem provider at the same
\* time, one call returns nil and every other returns ErrNotOpen; the done
\* channel is closed once and no call closes it a second time.
C24_MemShutdownOnce ==
    /\ closes <= 1
    /\ \A g \in MemClosers : ret[g] \in {"none", Nil, ErrNotOpen}
    /\ \A g, o \in MemClosers : (ret[g] = Nil /\ ret[o] = Nil) => g = o

\* the map subscriptions.Get returns for session id, empty when Get fails
SubsOf(d, id) ==
    IF SubscriptionsGetTx(d, id).err = Nil THEN SubscriptionsGetTx(d, id).subs ELSE EmptyFn

\* the topics of both maps, with the QoS of new where both have the topic
Merge(new, old) ==
    [t \in DOMAIN new \cup DOMAIN old |-> IF t \in DOMAIN new THEN new[t] ELSE old[t]]

\* one pass over the stored subscription records of session id, in key order
SinglePass(d, id) ==
    LET b == Val(Session(d, id).subscriptions)
    IN scanSubs(EmptyFn, b, SortKeys(DOMAIN b.recs), 1)

\* C25: with no Delete in between, subscriptions.Get returns the union of the
\* topics of all Add calls, each with the QoS of the latest Add that had the
\* topic: every successful Add changes what Get returns to the added map
\* merged over the map before, no other call than Add, subscriptions.Delete
\* and sessions.Delete changes it, and what Get returns is what a single pass
\* over the stored records yields.
C25_SubscriptionsGetUnion ==
    /\ []((last.op = "subscriptions.Get" /\ last.err = Nil)
            => /\ last.subs = SinglePass(db, last.id)
               /\ last.subs = SubsOf(db, last.id))
    /\ [][/\ (last'.op = "subscriptions.Add" /\ last'.err = Nil)
               => /\ SubscriptionsGetTx(db', last'.id).err = Nil
                  /\ SubsOf(db', last'.id) = Merge(last'.arg, SubsOf(db, last'.id))
          /\ last'.op \notin {"subscriptions.Add", "subscriptions.Delete", "sessions.Delete"}
               => \A id \in Ids : SubsOf(db', id) = SubsOf(db, id)]_vars

\* after Add of t1 with QoS 1 and t2 with QoS 0 and a later Add of t1 with
\* QoS 0, Get returned both topics, t1 with QoS 0
C25_Witness ==
    /\ last.op = "subscriptions.Get"
    /\ last.err = Nil
    /\ DOMAIN last.subs = {"t1", "t2"}
    /\ last.subs["t1"] = 0
    /\ Val(Session(db, last.id).subscriptions).seq = 3

----------------------------------------------------------------------------
(* C26: the handle of a deleted session *)

\* the calls made through the handle of one session
HandleOps == {"subscriptions.Add", "subscriptions.Get", "subscriptions.Delete",
              "messages.Store", "messages.Load", "messages.Delete"}

\* C26: on an open provider, every call through the handle of a session that
\* is not in the store (it was deleted, or never created) returns ErrNotFound,
\* leaves the session absent and leaves the whole database as it was; and a
\* messages.Store or subscriptions.Add that returns any error leaves the
\* database as it was.
C26_DeletedSessionHandle ==
    [][/\ (/\ last'.backend = "boltdb"
           /\ last'.op \in HandleOps
           /\ EarlyErr = Nil
           /\ ~HasSession(db, last'.id))
          => /\ last'.err = ErrNotFound
             /\ ~HasSession(db', last'.id)
             /\ db' = db
             /\ last'.subs = EmptyFn /\ last'.in = <<>> /\ last'.out = <<>>
       /\ (/\ last'.op \in {"messages.Store", "subscriptions.Add"}
           /\ last'.err # Nil)
          => db' = db]_vars

\* sessions.New("s1"), sessions.Delete("s1"), then messages.Store through the
\* handle New returned: the three updating calls of the budget
C26_Witness ==
    /\ last.op = "messages.Store" /\ last.id = "s1" /\ last.arg = <<P0>>
    /\ last.err = ErrNotFound
    /\ handles = {"s1"}
    /\ nops = 3
    /\ HasSessions(db) /\ ~HasSession(db, "s1")

----------------------------------------------------------------------------
(* C27: what sessions.GetAll lists *)

\* the session ids sessions.New returned a session for, and that no
\* sessions.Delete has removed since
CreatedWithNew == hist.new

\* C27: a sessions.GetAll that returns without error returns the handles of
\* exactly the ids created with New and not deleted since.
C27_GetAllListsCreated ==
    (last.op = "sessions.GetAll" /\ last.err = Nil) => last.ids = CreatedWithNew

----------------------------------------------------------------------------
(* C28: the retained messages *)

\* C28: retained.Load returns the messages of all retained.Store calls since
\* the last retained.Delete, in the order stored; after a Delete, Load returns
\* ErrNotFound until the next Store, and a Delete with nothing stored returns
\* ErrNotFound.
C28_RetainedAppends ==
    /\ []((last.op = "retained.Load" /\ last.err = Nil) => last.msgs = hist.retained)
    /\ [][/\ (last'.op = "retained.Store" /\ last'.err = Nil)
              => /\ RetainedLoadTx(db').err = Nil
                 /\ Len(RetainedLoadTx(db').msgs)
                       = Len(RetainedLoadTx(db).msgs) + Len(last'.arg)
          /\ (last'.op = "retained.Delete" /\ last'.err = Nil)
              => RetainedLoadTx(db').err = ErrNotFound
          /\ (last'.op # "retained.Store" /\ RetainedLoadTx(db).err = ErrNotFound)
              => RetainedLoadTx(db').err = ErrNotFound
          /\ (last'.op = "retained.Delete" /\ EarlyErr = Nil /\ IsNone(db.retained))
              => last'.err = ErrNotFound]_vars

----------------------------------------------------------------------------
(* C29: session isolation *)

\* what the calls on other sessions and on the retained messages return is
\* the same for the databases d and e
SameForOthers(d, e, id) ==
    /\ \A o \in Ids \ {id} :
          /\ SubscriptionsGetTx(e, o) = SubscriptionsGetTx(d, o)
          /\ MessagesLoadTx(e, o) = MessagesLoadTx(d, o)
    /\ RetainedLoadTx(e) = RetainedLoadTx(d)

\* the databases the updating calls on session id can leave
SessionTxs(d, id) ==
    UNION {{SubscriptionsAddTx(d, id, subs, order).db : order \in Orders(DOMAIN subs)} :
              subs \in SubMaps}
    \cup {MessagesStoreTx(d, id, dir, msgs).db : dir \in Dirs, msgs \in MsgLists}
    \cup {SubscriptionsDeleteTx(d, id).db, MessagesDeleteTx(d, id).db,
          SessionsDeleteTx(d, id).db}

SessionOps == HandleOps \cup {"sessions.Delete"}

\* C29: a call on one session (subscriptions.Add/Get/Delete,
\* messages.Store/Load/Delete, sessions.Delete) never changes what
\* subscriptions.Get and messages.Load return for any other session, nor what
\* retained.Load returns; this holds for the calls made and for every such
\* call that could be made on a database the provider has reached.
C29_SessionIsolation ==
    /\ [](\A id \in Ids : \A e \in SessionTxs(db, id) : SameForOthers(db, e, id))
    /\ [][(last'.backend = "boltdb" /\ last'.op \in SessionOps)
             => SameForOthers(db, db', last'.id)]_vars

\* sessions.New("s1"), sessions.New("s2"), then a subscriptions.Add through
\* the handle of "s1" that stored two topics, with "s2" still empty
C29_Witness ==
    /\ last.op = "subscriptions.Add" /\ last.id = "s1" /\ last.err = Nil
    /\ DOMAIN SubsOf(db, "s1") = {"t1", "t2"}
    /\ HasSession(db, "s2")
    /\ SubscriptionsGetTx(db, "s2").err = ErrNotFound
    /\ MessagesLoadTx(db, "s2").err = ErrNotFound

----------------------------------------------------------------------------
(* C30: AddReturnCodes on a list with an invalid code (checked under SpecCodec) *)

\* C30: when AddReturnCodes returns ErrInvalidReturnCode, the return codes of
\* the message are what they were before the call.
C30_AddReturnCodesAllOrNothing ==
    (codec.op = "SubAck.AddReturnCodes" /\ codec.err = ErrInvalidReturnCode)
        => codec.msg.returnCodes = codec.msg0.returnCodes

----------------------------------------------------------------------------
(* Claims about the persistence API (checked under Spec) *)

\* a call that returned nothing but its error
NoData(c) ==
    /\ ~c.handle
    /\ c.ids = {}
    /\ c.subs = EmptyFn
    /\ c.in = <<>>
    /\ c.out = <<>>
    /\ c.msgs = <<>>

\* C2: once Shutdown has returned successfully, every later call of the same
\* backend returns ErrNotOpen, returns no data, leaves the stored state and the
\* handles as they were, and the provider never becomes open again.
C2_NotOpenAfterShutdown ==
    [][ /\ (done /\ last'.backend = "boltdb")
            => (last'.err = ErrNotOpen /\ NoData(last') /\ db' = db /\ handles' = handles)
        /\ (memDone /\ last'.backend = "mem")
            => (last'.err = ErrNotOpen /\ NoData(last'))
        /\ done => (done' /\ dbh' = dbh)
        /\ memDone => memDone' ]_vars

\* a Store through a handle obtained before the shutdown is refused after it
C2_Witness ==
    /\ done
    /\ last.op = "messages.Store"
    /\ last.id \in handles
    /\ Len(last.arg) > 0
    /\ last.err = ErrNotOpen

\* strictly increasing sequence numbers as the keys of a bucket
KeysIncrease(b) ==
    LET keys == SortKeys(DOMAIN b.recs)
    IN /\ \A i \in 1..Len(keys) : keys[i] = itob64(i)
       /\ b.seq = Len(keys)

DirKeysIncrease(d, id) ==
    (HasSession(d, id) /\ ~IsNone(Session(d, id).messages))
        => \A dir \in DOMAIN Val(Session(d, id).messages) :
              KeysIncrease(Val(Session(d, id).messages)[dir])

\* C3: messages.Load returns, for each direction, exactly the messages stored
\* under it since the last delete, in the order stored, under increasing keys.
C3_LoadReturnsStored ==
    (last.op = "messages.Load" /\ last.err = Nil)
        => /\ last.in = hist.ses[last.id]["in"]
           /\ last.out = hist.ses[last.id]["out"]
           /\ DirKeysIncrease(db, last.id)

\* C4: sessions.Delete of an existing session succeeds and removes the session
\* with all that is stored under it: Get then returns ErrNotFound, and after a
\* New of the same id subscriptions.Get and messages.Load return nothing.
C4_DeleteRemovesNested ==
    [][ (last'.op = "sessions.Delete" /\ EarlyErr = Nil /\ HasSession(db, last'.id))
            => LET id == last'.id
                   n == SessionsNewTx(db', id)
                   g == SubscriptionsGetTx(n.db, id)
                   l == MessagesLoadTx(n.db, id)
               IN /\ last'.err = Nil
                  /\ SessionsGetErr(db', id) = ErrNotFound
                  /\ n.err = Nil
                  /\ g.subs = EmptyFn
                  /\ l.in = <<>>
                  /\ l.out = <<>> ]_vars

\* a session with stored records was deleted
C4_Witness ==
    /\ last.op = "sessions.Delete"
    /\ last.err = Nil
    /\ last.removed > 0

\* the fields of a message that the persistence layer is to keep
SameMsg(got, put) ==
    /\ got.type = put.type
    /\ got.id = put.id
    /\ put.type = PUBLISH
        => (got.qos = put.qos /\ got.topic = put.topic /\ got.payload = put.payload)

\* the last n entries of got are the n messages of put
TailIs(got, put) ==
    /\ Len(got) >= Len(put)
    /\ \A i \in 1..Len(put) : SameMsg(got[Len(got) - Len(put) + i], put[i])

\* C5: every message written by messages.Store or retained.Store comes back
\* from the following Load with the same type and packet ID, and for a PUBLISH
\* with the same QoS, topic and payload.
C5_RoundTrip ==
    /\ (last.op = "messages.Store" /\ last.err = Nil)
        => LET l == MessagesLoadTx(db, last.id)
           IN /\ l.err = Nil
              /\ TailIs(IF last.dir = "in" THEN l.in ELSE l.out, last.arg)
    /\ (last.op = "retained.Store" /\ last.err = Nil)
        => LET l == RetainedLoadTx(db)
           IN /\ l.err = Nil
              /\ TailIs(l.msgs, last.arg)

\* C6: a Delete whose target does not exist returns ErrNotFound.
C6_DeleteMissingNotFound ==
    [][ EarlyErr = Nil =>
        /\ (last'.op = "subscriptions.Delete" /\ HasSession(db, last'.id)
              /\ IsNone(Session(db, last'.id).subscriptions))
            => last'.err = ErrNotFound
        /\ (last'.op = "messages.Delete" /\ HasSession(db, last'.id)
              /\ IsNone(Session(db, last'.id).messages))
            => last'.err = ErrNotFound
        /\ (last'.op = "sessions.Delete" /\ ~HasSession(db, last'.id))
            => last'.err = ErrNotFound
        /\ (last'.op = "retained.Delete" /\ IsNone(db.retained))
            => last'.err = ErrNotFound ]_vars

\* C7: sessions.New of an id that exists returns ErrAlreadyExists and no
\* handle, and leaves the database as it was.
C7_NewExisting ==
    [][ (last'.op = "sessions.New" /\ EarlyErr = Nil /\ HasSession(db, last'.id))
            => /\ last'.err = ErrAlreadyExists
               /\ ~last'.handle
               /\ db' = db
               /\ handles' = handles ]_vars

\* New was refused for a session that holds stored records
C7_Witness ==
    /\ last.op = "sessions.New"
    /\ last.err = ErrAlreadyExists
    /\ Stored(db, last.id) > 0

\* C8: whenever sessions.New returns a handle and a nil error, the session
\* exists: a Get of the same id that follows succeeds.
C8_NewNeverSwallows ==
    (last.op = "sessions.New" /\ last.err = Nil /\ last.handle)
        => SessionsGetErr(db, last.id) = Nil


====
